---- MODULE Spec2Model ----
(***************************************************************************)
(* CAS_Exporter: the extraction scheduler (casexporter.CasExporter.Start), *)
(* the casadm adapter (casadm.ListCaches, casadm.GetCacheStats), the       *)
(* snapshot server (transport/http ExporterServer.Serve) and main.         *)
(*                                                                         *)
(* Gauge values are float64 in the program.  They are represented here in  *)
(* fixed point, as a whole number of tenths: 42.5 is 425 and float64(100)  *)
(* is 1000.                                                                *)
(***************************************************************************)
EXTENDS Integers, Sequences, FiniteSets, TLC

\* ---------------------------------------------------------------- bounds
MaxCycles == 2
MaxRuns == 1
MaxID == 2
MaxRequests == 41
MaxRows == 3
MaxScrapes == 1

\* ------------------------------------------------------ program constants
MaxRequestsInFlight == 40
SentinelDevice == "-"

Devices == {"/dev/sda", SentinelDevice}
IDs == 1..MaxID

\* Start never branches on a value of a Reading: two distinct Readings stand
\* for all of them
Seeds == {1, 2}

\* --------------------------------------------------------- casadm adapter
\* casadm.Cache, the fields CasExporter.Start reads
Cache == [ID : IDs, Device : Devices]

CacheStatsFields ==
  << [name |-> "Occupancy4K", type |-> "int"],
     [name |-> "OccupancyPercent", type |-> "float64"],
     [name |-> "Free4K", type |-> "int"],
     [name |-> "FreePercent", type |-> "float64"],
     [name |-> "Clean4K", type |-> "int"],
     [name |-> "CleanPercent", type |-> "float64"],
     [name |-> "Dirty4K", type |-> "int"],
     [name |-> "DirtyPercent", type |-> "float64"],
     [name |-> "ReadHitsRequests", type |-> "int"],
     [name |-> "ReadHitsPercent", type |-> "float64"],
     [name |-> "ReadPartialMissesRequests", type |-> "int"],
     [name |-> "ReadPartialMissesPercent", type |-> "float64"],
     [name |-> "ReadFullMissesRequests", type |-> "int"],
     [name |-> "ReadFullMissesPercent", type |-> "float64"],
     [name |-> "ReadTotalRequests", type |-> "int"],
     [name |-> "ReadTotalPercent", type |-> "float64"],
     [name |-> "WriteHitsRequests", type |-> "int"],
     [name |-> "WriteHitsPercent", type |-> "float64"],
     [name |-> "WritePartialMissesRequests", type |-> "int"],
     [name |-> "WritePartialMissesPercent", type |-> "float64"],
     [name |-> "WriteFullMissesRequests", type |-> "int"],
     [name |-> "WriteFullMissesPercent", type |-> "float64"],
     [name |-> "WriteTotalRequests", type |-> "int"],
     [name |-> "WriteTotalPercent", type |-> "float64"],
     [name |-> "PassThroughReadsRequests", type |-> "int"],
     [name |-> "PassThroughReadsPercent", type |-> "float64"],
     [name |-> "PassThroughWritesRequests", type |-> "int"],
     [name |-> "PassThroughWritesPercent", type |-> "float64"],
     [name |-> "ServicedRequestsRequests", type |-> "int"],
     [name |-> "ServicedRequestsPercent", type |-> "float64"],
     [name |-> "TotalRequestsRequests", type |-> "int"],
     [name |-> "TotalRequestsPercent", type |-> "float64"],
     [name |-> "ReadsFromCores4K", type |-> "int"],
     [name |-> "ReadsFromCoresPercent", type |-> "float64"],
     [name |-> "WritesFromCores4K", type |-> "int"],
     [name |-> "WritesFromCoresPercent", type |-> "float64"],
     [name |-> "TotalToFromCores4K", type |-> "int"],
     [name |-> "TotalToFromCoresPercent", type |-> "float64"],
     [name |-> "ReadsFromCache4K", type |-> "int"],
     [name |-> "ReadsFromCachePercent", type |-> "float64"],
     [name |-> "WritesToCachce4K", type |-> "int"],
     [name |-> "WritesToCachcePercent", type |-> "float64"],
     [name |-> "TotalToFromCache4K", type |-> "int"],
     [name |-> "TotalToFromCachePercent", type |-> "float64"],
     [name |-> "ReadsFromExportedObjects4K", type |-> "int"],
     [name |-> "ReadsFromExportedObjectsPercent", type |-> "float64"],
     [name |-> "WritesToExportedObjects4K", type |-> "int"],
     [name |-> "WritesToExportedObjectsPercent", type |-> "float64"],
     [name |-> "TotalToFromExportedObjects4K", type |-> "int"],
     [name |-> "TotalToFromExportedObjectsPercent", type |-> "float64"],
     [name |-> "CacheReadErrorsRequests", type |-> "int"],
     [name |-> "CacheReadErrorsPercent", type |-> "float64"],
     [name |-> "CacheWriteErrorsRequests", type |-> "int"],
     [name |-> "CacheWriteErrorsPercent", type |-> "float64"],
     [name |-> "CacheTotalErrorsRequests", type |-> "int"],
     [name |-> "CacheTotalErrorsPercent", type |-> "float64"],
     [name |-> "CoreReadErrorsRequests", type |-> "int"],
     [name |-> "CoreReadErrorsPercent", type |-> "float64"],
     [name |-> "CoreWriteErrorsRequests", type |-> "int"],
     [name |-> "CoreWriteErrorsPercent", type |-> "float64"],
     [name |-> "CoreTotalErrorsRequests", type |-> "int"],
     [name |-> "CoreTotalErrorsPercent", type |-> "float64"],
     [name |-> "TotalErrorsRequests", type |-> "int"],
     [name |-> "TotalErrorsPercent", type |-> "float64"] >>

Writes ==
  << [vec |-> "ocfStatCount", category |-> "usage", subcategory |-> "occupancy", field |-> "Occupancy4K", conv |-> "float64"],
     [vec |-> "ocfStatCount", category |-> "usage", subcategory |-> "free", field |-> "Free4K", conv |-> "float64"],
     [vec |-> "ocfStatCount", category |-> "usage", subcategory |-> "clean", field |-> "Clean4K", conv |-> "float64"],
     [vec |-> "ocfStatCount", category |-> "usage", subcategory |-> "dirty", field |-> "Dirty4K", conv |-> "float64"],
     [vec |-> "ocfStatCount", category |-> "requests", subcategory |-> "rd_hits", field |-> "ReadHitsRequests", conv |-> "float64"],
     [vec |-> "ocfStatCount", category |-> "requests", subcategory |-> "rd_partial_misses", field |-> "ReadPartialMissesRequests", conv |-> "float64"],
     [vec |-> "ocfStatCount", category |-> "requests", subcategory |-> "rd_full_misses", field |-> "ReadFullMissesRequests", conv |-> "float64"],
     [vec |-> "ocfStatCount", category |-> "requests", subcategory |-> "rd_total", field |-> "ReadTotalRequests", conv |-> "float64"],
     [vec |-> "ocfStatCount", category |-> "requests", subcategory |-> "wr_hits", field |-> "WriteHitsRequests", conv |-> "float64"],
     [vec |-> "ocfStatCount", category |-> "requests", subcategory |-> "wr_partial_misses", field |-> "WritePartialMissesRequests", conv |-> "float64"],
     [vec |-> "ocfStatCount", category |-> "requests", subcategory |-> "wr_full_misses", field |-> "WriteFullMissesRequests", conv |-> "float64"],
     [vec |-> "ocfStatCount", category |-> "requests", subcategory |-> "wr_total", field |-> "WriteTotalRequests", conv |-> "float64"],
     [vec |-> "ocfStatCount", category |-> "requests", subcategory |-> "rd_pt", field |-> "ReadTotalPercent", conv |-> "none"],
     [vec |-> "ocfStatCount", category |-> "requests", subcategory |-> "wr_pt", field |-> "WriteTotalPercent", conv |-> "none"],
     [vec |-> "ocfStatCount", category |-> "requests", subcategory |-> "serviced", field |-> "ServicedRequestsRequests", conv |-> "float64"],
     [vec |-> "ocfStatCount", category |-> "requests", subcategory |-> "total", field |-> "TotalRequestsRequests", conv |-> "float64"],
     [vec |-> "ocfStatCount", category |-> "blocks", subcategory |-> "core_volume_rd", field |-> "ReadsFromCores4K", conv |-> "float64"],
     [vec |-> "ocfStatCount", category |-> "blocks", subcategory |-> "core_volume_wr", field |-> "WritesFromCores4K", conv |-> "float64"],
     [vec |-> "ocfStatCount", category |-> "blocks", subcategory |-> "core_volume_total", field |-> "TotalToFromCores4K", conv |-> "float64"],
     [vec |-> "ocfStatCount", category |-> "blocks", subcategory |-> "cache_volume_rd", field |-> "ReadsFromCache4K", conv |-> "float64"],
     [vec |-> "ocfStatCount", category |-> "blocks", subcategory |-> "cache_volume_wr", field |-> "WritesToCachce4K", conv |-> "float64"],
     [vec |-> "ocfStatCount", category |-> "blocks", subcategory |-> "cache_volume_total", field |-> "TotalToFromCache4K", conv |-> "float64"],
     [vec |-> "ocfStatCount", category |-> "blocks", subcategory |-> "volume_rd", field |-> "ReadsFromExportedObjects4K", conv |-> "float64"],
     [vec |-> "ocfStatCount", category |-> "blocks", subcategory |-> "volume_wr", field |-> "WritesToExportedObjects4K", conv |-> "float64"],
     [vec |-> "ocfStatCount", category |-> "blocks", subcategory |-> "volume_total", field |-> "TotalToFromExportedObjects4K", conv |-> "float64"],
     [vec |-> "ocfStatCount", category |-> "errors", subcategory |-> "cache_volume_rd", field |-> "CacheReadErrorsRequests", conv |-> "float64"],
     [vec |-> "ocfStatCount", category |-> "errors", subcategory |-> "cache_volume_wr", field |-> "CacheWriteErrorsRequests", conv |-> "float64"],
     [vec |-> "ocfStatCount", category |-> "errors", subcategory |-> "cache_volume_total", field |-> "CacheTotalErrorsRequests", conv |-> "float64"],
     [vec |-> "ocfStatCount", category |-> "errors", subcategory |-> "core_volume_rd", field |-> "CoreReadErrorsRequests", conv |-> "float64"],
     [vec |-> "ocfStatCount", category |-> "errors", subcategory |-> "core_volume_wr", field |-> "CoreWriteErrorsRequests", conv |-> "float64"],
     [vec |-> "ocfStatCount", category |-> "errors", subcategory |-> "core_volume_total", field |-> "CoreTotalErrorsRequests", conv |-> "float64"],
     [vec |-> "ocfStatCount", category |-> "errors", subcategory |-> "total", field |-> "TotalErrorsRequests", conv |-> "float64"],
     [vec |-> "ocfStatPercentage", category |-> "usage", subcategory |-> "occupancy", field |-> "OccupancyPercent", conv |-> "none"],
     [vec |-> "ocfStatPercentage", category |-> "usage", subcategory |-> "free", field |-> "FreePercent", conv |-> "none"],
     [vec |-> "ocfStatPercentage", category |-> "usage", subcategory |-> "clean", field |-> "CleanPercent", conv |-> "none"],
     [vec |-> "ocfStatPercentage", category |-> "usage", subcategory |-> "dirty", field |-> "DirtyPercent", conv |-> "none"],
     [vec |-> "ocfStatPercentage", category |-> "requests", subcategory |-> "rd_hits", field |-> "ReadHitsPercent", conv |-> "none"],
     [vec |-> "ocfStatPercentage", category |-> "requests", subcategory |-> "rd_partial_misses", field |-> "ReadPartialMissesPercent", conv |-> "none"],
     [vec |-> "ocfStatPercentage", category |-> "requests", subcategory |-> "rd_full_misses", field |-> "ReadFullMissesPercent", conv |-> "none"],
     [vec |-> "ocfStatPercentage", category |-> "requests", subcategory |-> "rd_total", field |-> "ReadTotalPercent", conv |-> "none"],
     [vec |-> "ocfStatPercentage", category |-> "requests", subcategory |-> "wr_hits", field |-> "WriteHitsPercent", conv |-> "none"],
     [vec |-> "ocfStatPercentage", category |-> "requests", subcategory |-> "wr_partial_misses", field |-> "WritePartialMissesPercent", conv |-> "none"],
     [vec |-> "ocfStatPercentage", category |-> "requests", subcategory |-> "wr_full_misses", field |-> "WriteFullMissesPercent", conv |-> "none"],
     [vec |-> "ocfStatPercentage", category |-> "requests", subcategory |-> "wr_total", field |-> "WriteTotalPercent", conv |-> "none"],
     [vec |-> "ocfStatPercentage", category |-> "requests", subcategory |-> "rd_pt", field |-> "ReadTotalPercent", conv |-> "none"],
     [vec |-> "ocfStatPercentage", category |-> "requests", subcategory |-> "wr_pt", field |-> "WriteTotalPercent", conv |-> "none"],
     [vec |-> "ocfStatPercentage", category |-> "requests", subcategory |-> "serviced", field |-> "ServicedRequestsPercent", conv |-> "none"],
     [vec |-> "ocfStatPercentage", category |-> "requests", subcategory |-> "total", field |-> "TotalRequestsPercent", conv |-> "none"],
     [vec |-> "ocfStatPercentage", category |-> "blocks", subcategory |-> "core_volume_rd", field |-> "ReadsFromCoresPercent", conv |-> "none"],
     [vec |-> "ocfStatPercentage", category |-> "blocks", subcategory |-> "core_volume_wr", field |-> "WritesFromCoresPercent", conv |-> "none"],
     [vec |-> "ocfStatPercentage", category |-> "blocks", subcategory |-> "core_volume_total", field |-> "TotalToFromCoresPercent", conv |-> "none"],
     [vec |-> "ocfStatPercentage", category |-> "blocks", subcategory |-> "cache_volume_rd", field |-> "ReadsFromCachePercent", conv |-> "none"],
     [vec |-> "ocfStatPercentage", category |-> "blocks", subcategory |-> "cache_volume_wr", field |-> "WritesToCachcePercent", conv |-> "none"],
     [vec |-> "ocfStatPercentage", category |-> "blocks", subcategory |-> "cache_volume_total", field |-> "TotalToFromCachePercent", conv |-> "none"],
     [vec |-> "ocfStatPercentage", category |-> "blocks", subcategory |-> "volume_rd", field |-> "ReadsFromExportedObjectsPercent", conv |-> "none"],
     [vec |-> "ocfStatPercentage", category |-> "blocks", subcategory |-> "volume_wr", field |-> "WritesToExportedObjectsPercent", conv |-> "none"],
     [vec |-> "ocfStatPercentage", category |-> "blocks", subcategory |-> "volume_total", field |-> "TotalToFromExportedObjectsPercent", conv |-> "none"],
     [vec |-> "ocfStatPercentage", category |-> "errors", subcategory |-> "cache_volume_rd", field |-> "CacheReadErrorsPercent", conv |-> "none"],
     [vec |-> "ocfStatPercentage", category |-> "errors", subcategory |-> "cache_volume_wr", field |-> "CacheWriteErrorsPercent", conv |-> "none"],
     [vec |-> "ocfStatPercentage", category |-> "errors", subcategory |-> "cache_volume_total", field |-> "CacheTotalErrorsPercent", conv |-> "none"],
     [vec |-> "ocfStatPercentage", category |-> "errors", subcategory |-> "core_volume_rd", field |-> "CoreReadErrorsPercent", conv |-> "none"],
     [vec |-> "ocfStatPercentage", category |-> "errors", subcategory |-> "core_volume_wr", field |-> "CoreWriteErrorsPercent", conv |-> "none"],
     [vec |-> "ocfStatPercentage", category |-> "errors", subcategory |-> "core_volume_total", field |-> "CoreTotalErrorsPercent", conv |-> "none"],
     [vec |-> "ocfStatPercentage", category |-> "errors", subcategory |-> "total", field |-> "TotalErrorsPercent", conv |-> "none"] >>

FieldNames == {CacheStatsFields[j].name : j \in 1..Len(CacheStatsFields)}

\* position of each field in the struct
FieldIndex ==
  [name \in FieldNames |->
     CHOOSE j \in 1..Len(CacheStatsFields) : CacheStatsFields[j].name = name]

\* the column pair (absolute, percent) a field belongs to, in struct order
Stem == [name \in FieldNames |-> (FieldIndex[name] + 1) \div 2]

FieldType == [name \in FieldNames |-> CacheStatsFields[FieldIndex[name]].type]

\* casadm.CacheStats.  The Readings of the model are the family (a, p) in
\* which every numeric field is distinct: the int field of column pair k is
\* a*100 + k - 1 (Occupancy4K = 100 for a = 1), the float64 field of pair k
\* is, in tenths, 424 + k + (p - 1)*50 (OccupancyPercent = 42.5 for p = 1).
CacheStats == [a : Seeds, p : Seeds]

\* the Readings casadm --stats prints in the model
StatsOutputs == {st \in CacheStats : st.a = st.p}

\* stats.<name>
Field(st, name) ==
  IF FieldType[name] = "int" THEN st.a * 100 + Stem[name] - 1
  ELSE 424 + Stem[name] + (st.p - 1) * 50

NoStats == [a |-> 0, p |-> 0]

\* the lists of caches casadm prints: rows in ascending order of id, every id
\* at most once
CacheLists ==
  {l \in UNION {[1..n -> Cache] : n \in 0..MaxID} :
     \A i, j \in DOMAIN l : i < j => l[i].ID < l[j].ID}

\* what cmd.CombinedOutput() hands back: err, and the captured bytes b.  The
\* bytes are represented by what gocsv makes of them: malformed, or the rows
\* they decode to (as []*Cache and as []*CacheStats).
ExecErrs == {"nil", "exit status 1", "signal: killed"}

ListOutputs ==
  {[malformed |-> FALSE, caches |-> l, stats |-> <<>>] : l \in CacheLists}
  \cup {[malformed |-> TRUE, caches |-> <<>>, stats |-> <<>>]}

StatsRows == UNION {[1..n -> StatsOutputs] : n \in 0..MaxRows}

CacheStatsOutputs ==
  {[malformed |-> FALSE, caches |-> <<>>, stats |-> r] : r \in StatsRows}
  \cup {[malformed |-> TRUE, caches |-> <<>>, stats |-> <<>>]}

\* a nil error
Nil == [msg |-> "", cause |-> "", output |-> <<>>]

\* fmt.Errorf / errors.New: the text, the wrapped error, and the captured
\* output the message quotes (none, or b)
Errorf(msg, cause, output) == [msg |-> msg, cause |-> cause, output |-> output]

\* gocsv.UnmarshalBytes(b, &rows): the error
Unmarshal(b) == IF b.malformed THEN "gocsv" ELSE "nil"

\* what the two functions return: the result (isNil: the pointer or slice is
\* nil), the error, and whether the call panicked instead of returning
Return(isNil, c, st, err) ==
  [isNil |-> isNil, caches |-> c, stats |-> st, err |-> err, panic |-> FALSE]

\* casadm.ListCaches, given what the command did
ListCaches(cmd) ==
  IF cmd.err # "nil"
  THEN Return(TRUE, <<>>, NoStats, Errorf("list caches", cmd.err, <<cmd.b>>))
  ELSE IF Unmarshal(cmd.b) # "nil"
  THEN Return(TRUE, <<>>, NoStats,
              Errorf("unmarshal list caches csv", Unmarshal(cmd.b), <<>>))
  ELSE Return(FALSE, cmd.b.caches, NoStats, Nil)

\* GetCacheStats, with the length check missing: stats[0] of an empty slice
\* panics
GetCacheStats_NoLenCheck(cmd) ==
  IF cmd.err # "nil"
  THEN Return(TRUE, <<>>, NoStats, Errorf("list caches", cmd.err, <<cmd.b>>))
  ELSE IF Unmarshal(cmd.b) # "nil"
  THEN Return(TRUE, <<>>, NoStats,
              Errorf("unmarshal cache stats csv", Unmarshal(cmd.b), <<>>))
  ELSE IF Len(cmd.b.stats) = 0
  THEN [isNil |-> TRUE, caches |-> <<>>, stats |-> NoStats, err |-> Nil,
        panic |-> TRUE]
  ELSE Return(FALSE, <<>>, cmd.b.stats[1], Nil)

\* casadm.GetCacheStats, given what the command did
GetCacheStats(cmd) ==
  IF cmd.err # "nil"
  THEN Return(TRUE, <<>>, NoStats, Errorf("list caches", cmd.err, <<cmd.b>>))
  ELSE IF Unmarshal(cmd.b) # "nil"
  THEN Return(TRUE, <<>>, NoStats,
              Errorf("unmarshal cache stats csv", Unmarshal(cmd.b), <<>>))
  ELSE IF Len(cmd.b.stats) = 0
  THEN Return(TRUE, <<>>, NoStats, Errorf("missing cache stats", "", <<>>))
  ELSE Return(FALSE, <<>>, cmd.b.stats[1], Nil)

\* no call made yet
NoCall ==
  [fn |-> "none", cacheID |-> 0, err |-> "nil",
   b |-> [malformed |-> FALSE, caches |-> <<>>, stats |-> <<>>]]

\* the lists casadm prints after a cache has been started again on another
\* backing device: the same ids, the device names drawn from devs
CacheListsOf(devs) ==
  {l \in UNION {[1..n -> [ID : IDs, Device : devs]] : n \in 0..MaxID} :
     \A i, j \in DOMAIN l : i < j => l[i].ID < l[j].ID}

\* ------------------------------------------------------------ metric model
\* float64(n) of an int n, in tenths
Float64(n) == n * 10

\* strconv.Itoa(int(c.ID))
Itoa(n) == ToString(n)

\* prometheus.Labels{"device", "id", "category", "subcategory"}
Labels(c, w) == <<c.Device, Itoa(c.ID), w.category, w.subcategory>>

\* the two labels that name the cache: device and id
Entity(c) == <<c.Device, Itoa(c.ID)>>

\* the argument of Set in the k-th write
SetValue(w, st) ==
  IF w.conv = "float64" THEN Float64(Field(st, w.field)) ELSE Field(st, w.field)

\* GaugeVec.With(labels).Set(v): creates the child on first use, overwrites after
GaugeSet(vec, labels, v) ==
  [l \in DOMAIN vec \cup {labels} |-> IF l = labels THEN v ELSE vec[l]]

\* ApplyWrites, with Add in place of Set: a child that exists is added to
ApplyWrites_Add(vec, name, c, st, n) ==
  [l \in DOMAIN vec \cup
          {Labels(c, Writes[k]) : k \in {j \in 1..n : Writes[j].vec = name}} |->
     LET same == {k \in 1..n : /\ Writes[k].vec = name
                                /\ Writes[k].subcategory = l[4]
                                /\ Writes[k].category = l[3]}
         last == CHOOSE k \in same : \A j \in same : j <= k
     IN IF <<l[1], l[2]>> # Entity(c) \/ same = {} THEN vec[l]
        ELSE SetValue(Writes[last], st) + (IF l \in DOMAIN vec THEN vec[l] ELSE 0)]

\* ApplyWrites, with the last Set call of the table left out
ApplyWrites_DropLast(vec, name, c, st, n) ==
  [l \in DOMAIN vec \cup
          {Labels(c, Writes[k]) : k \in {j \in 1..(n - 1) : Writes[j].vec = name}} |->
     LET same == {k \in 1..(n - 1) : /\ Writes[k].vec = name
                                /\ Writes[k].subcategory = l[4]
                                /\ Writes[k].category = l[3]}
         last == CHOOSE k \in same : \A j \in same : j <= k
     IN IF <<l[1], l[2]>> # Entity(c) \/ same = {} THEN vec[l]
        ELSE SetValue(Writes[last], st)]

\* the state of one GaugeVec after writes 1..n of the table: every write that
\* goes to it sets its labels' child, the last write to a child wins; the
\* children of other caches stay as they are
ApplyWrites(vec, name, c, st, n) ==
  [l \in DOMAIN vec \cup
          {Labels(c, Writes[k]) : k \in {j \in 1..n : Writes[j].vec = name}} |->
     LET same == {k \in 1..n : /\ Writes[k].vec = name
                                /\ Writes[k].subcategory = l[4]
                                /\ Writes[k].category = l[3]}
         last == CHOOSE k \in same : \A j \in same : j <= k
     IN IF <<l[1], l[2]>> # Entity(c) \/ same = {} THEN vec[l]
        ELSE SetValue(Writes[last], st)]

\* ------------------------------------------------------------------- state
VARIABLES
  main_pc,            \* main: position in cas_exporter.go main
  wg,                 \* sync.WaitGroup counter
  ctxDone,            \* the context of main has been cancelled
  exited,             \* the process has terminated
  exitCode,           \* its status, when exited
  sched_pc,           \* CasExporter.Start: position
  success,            \* Start: local success
  caches,             \* Start: local caches
  ci,                 \* Start: index of c in the range loop
  stats,              \* Start: local stats
  ocfStatCount,       \* GaugeVec ocf_count: labels -> value
  ocfStatPercentage,  \* GaugeVec ocf_percentage
  ocfStatDuration,    \* GaugeVec ocf_duration_seconds (no labels)
  ocfStatSuccess,     \* GaugeVec ocf_success (no labels)
  serve_pc,           \* ExporterServer.Serve: position
  listen_pc,          \* the goroutine of Serve that runs ListenAndServe
  inShutdown,         \* srv.Shutdown has been called
  bound,              \* ListenAndServe has bound the address
  rendering,          \* /metrics requests inside promhttp's ServeHTTP
  rejected,           \* /metrics requests answered 503 by the limiter
  cyclesStarted,      \* history: cycles begun (default branch taken)
  cyclesFinished,     \* history: cycles whose time.Sleep has returned
  durationSets,       \* history: Set calls on ocfStatDuration
  startedAtCancel,    \* history: cyclesStarted when cancel() was called
  recordedAtCancel,   \* history: durationSets when cancel() was called
  listErr,            \* history: ListCaches failed in the current cycle
  outcome,            \* history: per entity of the current cycle, what Start did
  written,            \* history: <<device, id>> labels Set in the current cycle
  listenErr,          \* the error srv.ListenAndServe has returned
  shutdownErr,        \* the error srv.Shutdown has returned
  adapter_call,       \* casadm adapter: the call made and what the command did
  adapter_ret,        \* casadm adapter: what the call returned
  legacy_pc,          \* legacy main: position
  headerline,         \* legacy main: the fields of the first line of output
  rc,                 \* legacy main: what mapHeaders returned
  headerMap,          \* legacy: header keyword -> position in the csv line
  recording,          \* legacy: the goroutine of recordMetrics_19_9 runs
  serving,            \* legacy: http.ListenAndServe serves /metrics
  OCFStat_count,      \* legacy: GaugeVec ocf_count: labels -> value
  OCFStat_percentage, \* legacy: GaugeVec ocf_percentage: labels -> value
  parsed_ocf_data,    \* legacy: the fields of the data line sampled last
  scrape_pc,          \* a GET /metrics: 0 idle, k: Collect is at its k-th line
  snap,               \* what Collect has sent to the registry so far
  scrapes,            \* history: GET /metrics requests begun
  lastOk,             \* history: <<device, id>> -> the last Reading sampled
  probe,              \* the entity and the two Readings under comparison
  probe_out           \* the GaugeVec the 64 Sets give for each of the two

cancelHist == <<startedAtCancel, recordedAtCancel>>
mainVars == <<main_pc, wg, ctxDone, exited, exitCode, cancelHist>>
localVars == <<success, caches, ci, stats>>
gaugeVars == <<ocfStatCount, ocfStatPercentage, ocfStatDuration, ocfStatSuccess>>
serveVars == <<serve_pc, listen_pc, inShutdown, bound, rendering, rejected>>
histVars == <<cyclesStarted, cyclesFinished, durationSets, listErr, outcome,
              written>>
schedVars == <<sched_pc, localVars, gaugeVars, histVars>>

adapterVars == <<adapter_call, adapter_ret>>
legacyVars == <<legacy_pc, headerline, rc, headerMap, recording, serving>>
scrapeVars == <<scrape_pc, snap, scrapes>>
probeVars == <<probe, probe_out>>
legacyGauges == <<OCFStat_count, OCFStat_percentage, parsed_ocf_data>>
lateVars == <<legacyGauges, scrapeVars, lastOk, probeVars>>
extVars == <<listenErr, shutdownErr, adapterVars, legacyVars, lateVars>>
\* extVars but lastOk
restVars ==
  <<listenErr, shutdownErr, adapterVars, legacyVars, legacyGauges, scrapeVars,
    probeVars>>
\* extVars but scrapeVars
unscrapedVars ==
  <<listenErr, shutdownErr, adapterVars, legacyVars, legacyGauges, lastOk,
    probeVars>>

vars == <<mainVars, schedVars, serveVars, extVars>>

EmptyVec == [l \in {} |-> 0]

\* nothing collected yet
NoSnap ==
  [ocfStatCount |-> EmptyVec, ocfStatPercentage |-> EmptyVec,
   ocfStatDuration |-> EmptyVec, ocfStatSuccess |-> EmptyVec]

\* no comparison made yet
NoProbe ==
  [vec |-> "none", c |-> [ID |-> 0, Device |-> SentinelDevice],
   r1 |-> NoStats, r2 |-> NoStats]

InitRest ==
  /\ ctxDone = FALSE
  /\ exited = FALSE
  /\ exitCode = 0
  /\ success = 1
  /\ caches = <<>>
  /\ ci = 1
  /\ stats = NoStats
  /\ ocfStatCount = EmptyVec
  /\ ocfStatPercentage = EmptyVec
  /\ ocfStatDuration = EmptyVec
  /\ ocfStatSuccess = EmptyVec
  /\ listen_pc = "unborn"
  /\ inShutdown = FALSE
  /\ bound = FALSE
  /\ rendering = 0
  /\ rejected = 0
  /\ cyclesStarted = 0
  /\ cyclesFinished = 0
  /\ durationSets = 0
  /\ startedAtCancel = 0
  /\ recordedAtCancel = 0
  /\ listErr = FALSE
  /\ outcome = <<>>
  /\ written = {}
  /\ listenErr = "none"
  /\ shutdownErr = "none"
  /\ adapter_call = NoCall
  /\ adapter_ret = Return(TRUE, <<>>, NoStats, Nil)
  /\ legacy_pc = "probe"
  /\ headerline = <<>>
  /\ rc = 0
  /\ headerMap = {}
  /\ recording = FALSE
  /\ serving = FALSE
  /\ OCFStat_count = EmptyVec
  /\ OCFStat_percentage = EmptyVec
  /\ parsed_ocf_data = <<>>
  /\ scrape_pc = 0
  /\ snap = NoSnap
  /\ scrapes = 0
  /\ lastOk = EmptyVec
  /\ probe = NoProbe
  /\ probe_out = <<EmptyVec, EmptyVec>>

\* main is entered: NewCasExporter has built the four empty GaugeVecs
Init ==
  /\ main_pc = "goStart"
  /\ wg = 0
  /\ sched_pc = "unborn"
  /\ serve_pc = "unborn"
  /\ InitRest

\* main has started both tasks and waits on the stop channel; neither task
\* has run yet
InitRunning ==
  /\ main_pc = "waitStop"
  /\ wg = 2
  /\ sched_pc = "top"
  /\ serve_pc = "setup"
  /\ InitRest

\* -------------------------------------------------------------------- main
\* go c.Start(ctx, &wg)
Main_GoStart ==
  /\ ~exited /\ main_pc = "goStart"
  /\ sched_pc' = "top"
  /\ main_pc' = "add1"
  /\ UNCHANGED <<extVars, wg, ctxDone, exited, exitCode, cancelHist, localVars,
                 gaugeVars, histVars, serveVars>>

\* wg.Add(1) after go c.Start
Main_Add1 ==
  /\ ~exited /\ main_pc = "add1"
  /\ wg' = wg + 1
  /\ main_pc' = "goServe"
  /\ UNCHANGED <<extVars, ctxDone, exited, exitCode, cancelHist, schedVars, serveVars>>

\* go http.Serve(ctx, &wg)
Main_GoServe ==
  /\ ~exited /\ main_pc = "goServe"
  /\ serve_pc' = "setup"
  /\ main_pc' = "add2"
  /\ UNCHANGED <<extVars, wg, ctxDone, exited, exitCode, cancelHist, schedVars,
                 listen_pc, inShutdown, bound, rendering, rejected>>

\* wg.Add(1) after go http.Serve, signal.Notify
Main_Add2 ==
  /\ ~exited /\ main_pc = "add2"
  /\ wg' = wg + 1
  /\ main_pc' = "waitStop"
  /\ UNCHANGED <<extVars, ctxDone, exited, exitCode, cancelHist, schedVars, serveVars>>

\* <-stop: the interrupt signal is delivered
Main_Stop ==
  /\ ~exited /\ main_pc = "waitStop"
  /\ main_pc' = "cancel"
  /\ UNCHANGED <<extVars, wg, ctxDone, exited, exitCode, cancelHist, schedVars, serveVars>>

\* cancel()
Main_Cancel ==
  /\ ~exited /\ main_pc = "cancel"
  /\ ctxDone' = TRUE
  /\ startedAtCancel' = cyclesStarted
  /\ recordedAtCancel' = durationSets
  /\ main_pc' = "wait"
  /\ UNCHANGED <<extVars, wg, exited, exitCode, schedVars, serveVars>>

\* wg.Wait() returns when the counter is zero; main returns, the process exits 0
Main_Wait ==
  /\ ~exited /\ main_pc = "wait"
  /\ wg = 0
  /\ main_pc' = "returned"
  /\ exited' = TRUE
  /\ exitCode' = 0
  /\ UNCHANGED <<extVars, wg, ctxDone, cancelHist, schedVars, serveVars>>

\* wg.Done(): a negative counter panics, the process dies with status 2
WgDone ==
  IF wg = 0
  THEN /\ exited' = TRUE /\ exitCode' = 2 /\ wg' = wg
  ELSE /\ wg' = wg - 1 /\ UNCHANGED <<exited, exitCode>>

\* ----------------------------------------------------- CasExporter.Start
\* time.Since(start).Seconds() in cycle n.  Start never reads the value; the
\* durations of different cycles are represented by different numbers.
Since(n) == n

\* select, case <-ctx.Done(): wg.Done(); return
Start_Done ==
  /\ ~exited /\ sched_pc = "top"
  /\ ctxDone
  /\ WgDone
  /\ sched_pc' = "stopped"
  /\ UNCHANGED <<extVars, main_pc, ctxDone, cancelHist, localVars, gaugeVars,
                 histVars, serveVars>>

\* Start_Default, with the default branch taken whatever ctx.Done() says
Start_Default_NoCheck(limit) ==
  /\ ~exited /\ sched_pc = "top"
  /\ cyclesStarted < limit
  /\ success' = 1
  /\ sched_pc' = "list"
  /\ cyclesStarted' = cyclesStarted + 1
  /\ listErr' = FALSE
  /\ outcome' = <<>>
  /\ written' = {}
  /\ UNCHANGED <<extVars, mainVars, caches, ci, stats, gaugeVars, serveVars,
                 cyclesFinished, durationSets>>

\* select, default: start := time.Now(); success := 1
Start_Default(limit) ==
  /\ ~exited /\ sched_pc = "top"
  /\ ~ctxDone
  /\ cyclesStarted < limit
  /\ success' = 1
  /\ sched_pc' = "list"
  /\ cyclesStarted' = cyclesStarted + 1
  /\ listErr' = FALSE
  /\ outcome' = <<>>
  /\ written' = {}
  /\ UNCHANGED <<extVars, mainVars, caches, ci, stats, gaugeVars, serveVars,
                 cyclesFinished, durationSets>>

\* Start_ListCachesErr, with the else missing: the range loop runs over the
\* caches of the previous cycle
Start_ListCachesErr_NoElse ==
  /\ ~exited /\ sched_pc = "list"
  /\ success' = 0
  /\ listErr' = TRUE
  /\ ci' = 1
  /\ sched_pc' = "range"
  /\ UNCHANGED <<extVars, mainVars, caches, stats, gaugeVars, serveVars, cyclesStarted,
                 cyclesFinished, durationSets, outcome, written>>

\* Start_ListCachesErr, with a return after the error is logged: wg.Done
\* and the loop is left
Start_ListCachesErr_Return ==
  /\ ~exited /\ sched_pc = "list"
  /\ success' = 0
  /\ listErr' = TRUE
  /\ WgDone
  /\ sched_pc' = "stopped"
  /\ UNCHANGED <<extVars, main_pc, ctxDone, cancelHist, caches, ci, stats,
                 gaugeVars, serveVars, cyclesStarted, cyclesFinished,
                 durationSets, outcome, written>>

\* Start_ListCachesErr, with the two outcome Sets skipped after an error
Start_ListCachesErr_SkipRecord ==
  /\ ~exited /\ sched_pc = "list"
  /\ success' = 0
  /\ listErr' = TRUE
  /\ sched_pc' = "sleep"
  /\ UNCHANGED <<extVars, mainVars, caches, ci, stats, gaugeVars, serveVars, cyclesStarted,
                 cyclesFinished, durationSets, outcome, written>>

\* caches, err := casadm.ListCaches(ctx), err != nil: success = 0.
\* exec.CommandContext fails when ctx is already cancelled.
Start_ListCachesErr ==
  /\ ~exited /\ sched_pc = "list"
  /\ success' = 0
  /\ listErr' = TRUE
  /\ sched_pc' = "record"
  /\ UNCHANGED <<extVars, mainVars, caches, ci, stats, gaugeVars, serveVars, cyclesStarted,
                 cyclesFinished, durationSets, outcome, written>>

\* Start_ListCachesOk, with the two labelled GaugeVecs emptied before the
\* range loop
Start_ListCachesOk_Reset ==
  /\ ~exited /\ sched_pc = "list"
  /\ ~ctxDone
  /\ \E l \in CacheLists : caches' = l
  /\ ci' = 1
  /\ ocfStatCount' = EmptyVec
  /\ ocfStatPercentage' = EmptyVec
  /\ sched_pc' = "range"
  /\ UNCHANGED <<extVars, mainVars, success, stats, ocfStatDuration,
                 ocfStatSuccess, serveVars, histVars>>

\* caches, err := casadm.ListCaches(ctx), err == nil: enter the range loop
Start_ListCachesOk ==
  /\ ~exited /\ sched_pc = "list"
  /\ ~ctxDone
  /\ \E l \in CacheLists : caches' = l
  /\ ci' = 1
  /\ sched_pc' = "range"
  /\ UNCHANGED <<extVars, mainVars, success, stats, gaugeVars, serveVars, histVars>>

\* Start_ListCachesOk, the rows of the list drawn from lists
Start_ListCachesOkFrom(lists) ==
  /\ ~exited /\ sched_pc = "list"
  /\ ~ctxDone
  /\ \E l \in lists : caches' = l
  /\ ci' = 1
  /\ sched_pc' = "range"
  /\ UNCHANGED <<extVars, mainVars, success, stats, gaugeVars, serveVars, histVars>>

\* Inactive, with the sentinel never recognised
Inactive_Never(c) == FALSE

\* c.Device == "-"
Inactive(c) == c.Device = SentinelDevice

\* if c.Device == "-" { continue }
Start_Skip ==
  /\ ~exited /\ sched_pc = "range"
  /\ ci <= Len(caches)
  /\ Inactive(caches[ci])
  /\ outcome' = Append(outcome, [res |-> "skipped", stats |-> NoStats])
  /\ ci' = ci + 1
  /\ UNCHANGED <<extVars, mainVars, sched_pc, success, caches, stats, gaugeVars, serveVars,
                 cyclesStarted, cyclesFinished, durationSets, listErr, written>>

\* Start_GetCacheStatsErr, with break in place of continue
Start_GetCacheStatsErr_Break ==
  /\ ~exited /\ sched_pc = "range"
  /\ ci <= Len(caches)
  /\ ~Inactive(caches[ci])
  /\ success' = 0
  /\ outcome' = Append(outcome, [res |-> "failed", stats |-> NoStats])
  /\ sched_pc' = "record"
  /\ UNCHANGED <<extVars, mainVars, caches, ci, stats, gaugeVars, serveVars,
                 cyclesStarted, cyclesFinished, durationSets, listErr, written>>

\* Start_GetCacheStatsErr, with success left as it is
Start_GetCacheStatsErr_KeepSuccess ==
  /\ ~exited /\ sched_pc = "range"
  /\ ci <= Len(caches)
  /\ ~Inactive(caches[ci])
  /\ outcome' = Append(outcome, [res |-> "failed", stats |-> NoStats])
  /\ ci' = ci + 1
  /\ UNCHANGED <<extVars, mainVars, sched_pc, success, caches, stats, gaugeVars, serveVars,
                 cyclesStarted, cyclesFinished, durationSets, listErr, written>>

\* stats, err := casadm.GetCacheStats(ctx, c.ID), err != nil:
\* success = 0; continue
Start_GetCacheStatsErr ==
  /\ ~exited /\ sched_pc = "range"
  /\ ci <= Len(caches)
  /\ ~Inactive(caches[ci])
  /\ success' = 0
  /\ outcome' = Append(outcome, [res |-> "failed", stats |-> NoStats])
  /\ ci' = ci + 1
  /\ UNCHANGED <<extVars, mainVars, sched_pc, caches, stats, gaugeVars, serveVars,
                 cyclesStarted, cyclesFinished, durationSets, listErr, written>>

\* stats, err := casadm.GetCacheStats(ctx, c.ID), err == nil
Start_GetCacheStatsOk ==
  /\ ~exited /\ sched_pc = "range"
  /\ ci <= Len(caches)
  /\ ~Inactive(caches[ci])
  /\ ~ctxDone
  /\ \E r \in StatsOutputs : stats' = r
  /\ sched_pc' = "write"
  /\ UNCHANGED <<extVars, mainVars, success, caches, ci, gaugeVars, serveVars, histVars>>

\* Start_WriteStats, with the percentage block left out
Start_WriteStats_CountOnly ==
  /\ ~exited /\ sched_pc = "write"
  /\ ocfStatCount' =
       ApplyWrites(ocfStatCount, "ocfStatCount", caches[ci], stats, Len(Writes))
  /\ written' = written \cup
       {SubSeq(Labels(caches[ci], Writes[k]), 1, 2) : k \in 1..Len(Writes)}
  /\ outcome' = Append(outcome, [res |-> "ok", stats |-> stats])
  /\ stats' = NoStats
  /\ ci' = ci + 1
  /\ sched_pc' = "range"
  /\ lastOk' = GaugeSet(lastOk, Entity(caches[ci]), stats)
  /\ UNCHANGED <<restVars, mainVars, success, caches, ocfStatPercentage,
                 ocfStatDuration, ocfStatSuccess, serveVars, cyclesStarted,
                 cyclesFinished, durationSets, listErr>>

\* the 64 With(...).Set(...) calls for c, then the next c
Start_WriteStats ==
  /\ ~exited /\ sched_pc = "write"
  /\ ocfStatCount' =
       ApplyWrites(ocfStatCount, "ocfStatCount", caches[ci], stats, Len(Writes))
  /\ ocfStatPercentage' =
       ApplyWrites(ocfStatPercentage, "ocfStatPercentage", caches[ci], stats,
                   Len(Writes))
  /\ written' = written \cup
       {SubSeq(Labels(caches[ci], Writes[k]), 1, 2) : k \in 1..Len(Writes)}
  /\ outcome' = Append(outcome, [res |-> "ok", stats |-> stats])
  /\ stats' = NoStats
  /\ ci' = ci + 1
  /\ sched_pc' = "range"
  /\ lastOk' = GaugeSet(lastOk, Entity(caches[ci]), stats)
  /\ UNCHANGED <<restVars, mainVars, success, caches, ocfStatDuration, ocfStatSuccess,
                 serveVars, cyclesStarted, cyclesFinished, durationSets, listErr>>

\* the 32 ocfStatCount.With(...).Set(...) calls for c
Start_WriteCount ==
  /\ ~exited /\ sched_pc = "write"
  /\ ocfStatCount' =
       ApplyWrites(ocfStatCount, "ocfStatCount", caches[ci], stats, Len(Writes))
  /\ sched_pc' = "writePercent"
  /\ UNCHANGED <<extVars, mainVars, localVars, ocfStatPercentage, ocfStatDuration,
                 ocfStatSuccess, serveVars, histVars>>

\* Start_WritePercent, with the cache given up between the two blocks: the
\* loop goes to the next c without the percentage Sets
Start_WritePercent_GiveUp ==
  /\ ~exited /\ sched_pc = "writePercent"
  /\ written' = written \cup
       {SubSeq(Labels(caches[ci], Writes[k]), 1, 2) : k \in 1..Len(Writes)}
  /\ outcome' = Append(outcome, [res |-> "ok", stats |-> stats])
  /\ lastOk' = GaugeSet(lastOk, Entity(caches[ci]), stats)
  /\ stats' = NoStats
  /\ ci' = ci + 1
  /\ sched_pc' = "range"
  /\ UNCHANGED <<restVars, mainVars, success, caches, gaugeVars, serveVars,
                 cyclesStarted, cyclesFinished, durationSets, listErr>>

\* the 32 ocfStatPercentage.With(...).Set(...) calls for c, then the next c
Start_WritePercent ==
  /\ ~exited /\ sched_pc = "writePercent"
  /\ ocfStatPercentage' =
       ApplyWrites(ocfStatPercentage, "ocfStatPercentage", caches[ci], stats,
                   Len(Writes))
  /\ written' = written \cup
       {SubSeq(Labels(caches[ci], Writes[k]), 1, 2) : k \in 1..Len(Writes)}
  /\ outcome' = Append(outcome, [res |-> "ok", stats |-> stats])
  /\ lastOk' = GaugeSet(lastOk, Entity(caches[ci]), stats)
  /\ stats' = NoStats
  /\ ci' = ci + 1
  /\ sched_pc' = "range"
  /\ UNCHANGED <<restVars, mainVars, success, caches, ocfStatCount, ocfStatDuration,
                 ocfStatSuccess, serveVars, cyclesStarted, cyclesFinished,
                 durationSets, listErr>>

\* the range loop is exhausted
Start_RangeEnd ==
  /\ ~exited /\ sched_pc = "range"
  /\ ci > Len(caches)
  /\ sched_pc' = "record"
  /\ UNCHANGED <<extVars, mainVars, localVars, gaugeVars, serveVars, histVars>>

\* Start_Record, with the sleep moved to a goroutine of its own: the loop
\* goes on at once
Start_Record_NoSleep ==
  /\ ~exited /\ sched_pc = "record"
  /\ ocfStatDuration' = GaugeSet(ocfStatDuration, <<>>, Since(cyclesStarted))
  /\ ocfStatSuccess' = GaugeSet(ocfStatSuccess, <<>>, Float64(success))
  /\ durationSets' = durationSets + 1
  /\ sched_pc' = "top"
  /\ UNCHANGED <<extVars, mainVars, localVars, ocfStatCount, ocfStatPercentage, serveVars,
                 cyclesStarted, cyclesFinished, listErr, outcome, written>>

\* duration := time.Since(start); ocfStatDuration.Set; ocfStatSuccess.Set
Start_Record ==
  /\ ~exited /\ sched_pc = "record"
  /\ ocfStatDuration' = GaugeSet(ocfStatDuration, <<>>, Since(cyclesStarted))
  /\ ocfStatSuccess' = GaugeSet(ocfStatSuccess, <<>>, Float64(success))
  /\ durationSets' = durationSets + 1
  /\ sched_pc' = "sleep"
  /\ UNCHANGED <<extVars, mainVars, localVars, ocfStatCount, ocfStatPercentage, serveVars,
                 cyclesStarted, cyclesFinished, listErr, outcome, written>>

\* time.Sleep(e.extractionInterval) returns
Start_Sleep ==
  /\ ~exited /\ sched_pc = "sleep"
  /\ cyclesFinished' = cyclesFinished + 1
  /\ sched_pc' = "top"
  /\ UNCHANGED <<extVars, mainVars, localVars, gaugeVars, serveVars, cyclesStarted,
                 durationSets, listErr, outcome, written>>

\* --------------------------------------------------- ExporterServer.Serve
\* registry, mux, srv; go func() { srv.ListenAndServe() ... }()
Serve_Setup ==
  /\ ~exited /\ serve_pc = "setup"
  /\ listen_pc' = "start"
  /\ serve_pc' = "waitCtx"
  /\ UNCHANGED <<extVars, mainVars, schedVars, inShutdown, bound, rendering, rejected>>

\* Serve_CtxDone, with the receive from ctx.Done() left out
Serve_CtxDone_NoWait ==
  /\ ~exited /\ serve_pc = "waitCtx"
  /\ serve_pc' = "shutdown"
  /\ UNCHANGED <<extVars, mainVars, schedVars, listen_pc, inShutdown, bound, rendering,
                 rejected>>

\* <-ctx.Done(); context.WithTimeout(10s)
Serve_CtxDone ==
  /\ ~exited /\ serve_pc = "waitCtx"
  /\ ctxDone
  /\ serve_pc' = "shutdown"
  /\ UNCHANGED <<extVars, mainVars, schedVars, listen_pc, inShutdown, bound, rendering,
                 rejected>>

\* srv.Shutdown(timeout) is entered: the listener is closed
Serve_Shutdown ==
  /\ ~exited /\ serve_pc = "shutdown"
  /\ inShutdown' = TRUE
  /\ serve_pc' = "draining"
  /\ UNCHANGED <<extVars, mainVars, schedVars, listen_pc, bound, rendering, rejected>>

\* srv.Shutdown(timeout) returns: nil when every connection is idle, the
\* context's error when the 10 seconds have passed with a request still
\* being served.  Serve drops the value.
Serve_ShutdownReturn ==
  /\ ~exited /\ serve_pc = "draining"
  /\ shutdownErr' = IF rendering = 0 THEN "nil" ELSE "deadline exceeded"
  /\ serve_pc' = "wgDone"
  /\ UNCHANGED <<mainVars, schedVars, listen_pc, inShutdown, bound, rendering,
                 rejected, listenErr, adapterVars, legacyVars, lateVars>>

\* wg.Done()
Serve_Done ==
  /\ ~exited /\ serve_pc = "wgDone"
  /\ WgDone
  /\ serve_pc' = "returned"
  /\ UNCHANGED <<extVars, main_pc, ctxDone, cancelHist, schedVars, listen_pc,
                 inShutdown, bound, rendering, rejected>>

\* srv.ListenAndServe() binds the address and serves
Listen_Bind ==
  /\ ~exited /\ listen_pc = "start"
  /\ ~inShutdown
  /\ bound' = TRUE
  /\ listen_pc' = "serving"
  /\ UNCHANGED <<extVars, mainVars, schedVars, serve_pc, inShutdown, rendering, rejected>>

\* srv.ListenAndServe() returns an error at once: the address cannot be
\* bound, or Shutdown was called before (ErrServerClosed)
Listen_Fail ==
  /\ ~exited /\ listen_pc = "start"
  /\ listenErr' = IF inShutdown THEN "ErrServerClosed" ELSE "listen"
  /\ listen_pc' = "err"
  /\ UNCHANGED <<mainVars, schedVars, serve_pc, inShutdown, bound, rendering,
                 rejected, shutdownErr, adapterVars, legacyVars, lateVars>>

\* srv.ListenAndServe() returns ErrServerClosed once Shutdown has been called
Listen_Closed ==
  /\ ~exited /\ listen_pc = "serving"
  /\ inShutdown
  /\ listenErr' = "ErrServerClosed"
  /\ listen_pc' = "err"
  /\ UNCHANGED <<mainVars, schedVars, serve_pc, inShutdown, bound, rendering,
                 rejected, shutdownErr, adapterVars, legacyVars, lateVars>>

\* err != nil: slog.Error; os.Exit(1)
Listen_Exit ==
  /\ ~exited /\ listen_pc = "err"
  /\ exited' = TRUE
  /\ exitCode' = 1
  /\ listen_pc' = "exited"
  /\ UNCHANGED <<extVars, main_pc, wg, ctxDone, cancelHist, schedVars, serve_pc,
                 inShutdown, bound, rendering, rejected>>

\* the number of tokens in inFlightSem as the handler of a new request sees
\* it: promhttp.HandlerFor is called inside the HandleFunc closure, so every
\* request gets a handler with a semaphore of its own, which is empty
InFlightSem(n) == 0

\* GET /metrics: HandlerFor(...).ServeHTTP: take a slot of inFlightSem and
\* render, or answer 503 when the semaphore is full
Request_Arrive ==
  /\ ~exited /\ listen_pc = "serving" /\ ~inShutdown
  /\ rendering + rejected < MaxRequests
  /\ IF InFlightSem(rendering) < MaxRequestsInFlight
     THEN /\ rendering' = rendering + 1 /\ UNCHANGED rejected
     ELSE /\ rejected' = rejected + 1 /\ UNCHANGED rendering
  /\ UNCHANGED <<extVars, mainVars, schedVars, serve_pc, listen_pc, inShutdown, bound>>

\* the render (reg.Gather, CasExporter.Collect) ends, the slot is released
Request_Done ==
  /\ ~exited /\ rendering > 0
  /\ rendering' = rendering - 1
  /\ UNCHANGED <<extVars, mainVars, schedVars, serve_pc, listen_pc, inShutdown, bound,
                 rejected>>

\* the order of the four Collect calls in CasExporter.Collect
CollectOrder ==
  <<"ocfStatCount", "ocfStatPercentage", "ocfStatDuration", "ocfStatSuccess">>

\* the GaugeVec of that name
Vec(name) ==
  CASE name = "ocfStatCount" -> ocfStatCount
    [] name = "ocfStatPercentage" -> ocfStatPercentage
    [] name = "ocfStatDuration" -> ocfStatDuration
    [] name = "ocfStatSuccess" -> ocfStatSuccess

\* GET /metrics reaches the handler: reg.Gather calls CasExporter.Collect
Scrape_Begin ==
  /\ ~exited /\ listen_pc = "serving" /\ ~inShutdown
  /\ scrape_pc = 0
  /\ scrapes < MaxScrapes
  /\ scrape_pc' = 1
  /\ scrapes' = scrapes + 1
  /\ snap' = NoSnap
  /\ UNCHANGED <<unscrapedVars, mainVars, schedVars, serveVars>>

\* Scrape_Collect, with a lock the Start loop holds from ListCaches to the
\* two outcome Sets
Scrape_Collect_CycleLock ==
  /\ ~exited /\ scrape_pc \in 1..Len(CollectOrder)
  /\ sched_pc \in {"top", "sleep", "stopped"}
  /\ snap' = [snap EXCEPT ![CollectOrder[scrape_pc]] = Vec(CollectOrder[scrape_pc])]
  /\ scrape_pc' = scrape_pc + 1
  /\ UNCHANGED <<scrapes, unscrapedVars, mainVars, schedVars, serveVars>>

\* one line of CasExporter.Collect: e.<vec>.Collect(ch) sends the children
\* the GaugeVec holds now
Scrape_Collect ==
  /\ ~exited /\ scrape_pc \in 1..Len(CollectOrder)
  /\ snap' = [snap EXCEPT ![CollectOrder[scrape_pc]] = Vec(CollectOrder[scrape_pc])]
  /\ scrape_pc' = scrape_pc + 1
  /\ UNCHANGED <<scrapes, unscrapedVars, mainVars, schedVars, serveVars>>

\* Collect has returned: the response is written
Scrape_End ==
  /\ ~exited /\ scrape_pc = Len(CollectOrder) + 1
  /\ scrape_pc' = 0
  /\ snap' = NoSnap
  /\ UNCHANGED <<scrapes, unscrapedVars, mainVars, schedVars, serveVars>>

\* rows of the list whose device is not "-": the caches Start writes for
ActiveCaches == [ID : IDs, Device : {"/dev/sda", "/dev/sdb"}]

\* the ocfStatCount block of Start run on an empty GaugeVec for one cache,
\* once with each of two Readings
Compare_Count ==
  /\ \E c \in ActiveCaches, r1, r2 \in CacheStats :
       /\ probe' = [vec |-> "ocfStatCount", c |-> c, r1 |-> r1, r2 |-> r2]
       /\ probe_out' =
            <<ApplyWrites(EmptyVec, "ocfStatCount", c, r1, Len(Writes)),
              ApplyWrites(EmptyVec, "ocfStatCount", c, r2, Len(Writes))>>
  /\ UNCHANGED <<mainVars, schedVars, serveVars, listenErr, shutdownErr,
                 adapterVars, legacyVars, legacyGauges, scrapeVars, lastOk>>

\* the ocfStatPercentage block of Start, in the same way
Compare_Percentage ==
  /\ \E c \in ActiveCaches, r1, r2 \in CacheStats :
       /\ probe' = [vec |-> "ocfStatPercentage", c |-> c, r1 |-> r1, r2 |-> r2]
       /\ probe_out' =
            <<ApplyWrites(EmptyVec, "ocfStatPercentage", c, r1, Len(Writes)),
              ApplyWrites(EmptyVec, "ocfStatPercentage", c, r2, Len(Writes))>>
  /\ UNCHANGED <<mainVars, schedVars, serveVars, listenErr, shutdownErr,
                 adapterVars, legacyVars, legacyGauges, scrapeVars, lastOk>>

\* ---------------------------------------------------------- casadm calls
\* a call of casadm.ListCaches: the command ends in any way, the function
\* returns
Adapter_ListCaches ==
  /\ \E e \in ExecErrs, b \in ListOutputs :
       LET cmd == [fn |-> "ListCaches", cacheID |-> 0, err |-> e, b |-> b]
       IN /\ adapter_call' = cmd
          /\ adapter_ret' = ListCaches(cmd)
  /\ UNCHANGED <<mainVars, schedVars, serveVars, listenErr, shutdownErr,
                 legacyVars, lateVars>>

\* a call of casadm.GetCacheStats
Adapter_GetCacheStats ==
  /\ \E id \in IDs, e \in ExecErrs, b \in CacheStatsOutputs :
       LET cmd == [fn |-> "GetCacheStats", cacheID |-> id, err |-> e, b |-> b]
       IN /\ adapter_call' = cmd
          /\ adapter_ret' = GetCacheStats(cmd)
  /\ UNCHANGED <<mainVars, schedVars, serveVars, listenErr, shutdownErr,
                 legacyVars, lateVars>>

\* ------------------------------------------------ legacy exporter (19.9)
\* initializeHeaders: internal header name -> the text searched for in the
\* csv header line
HeadersTable ==
  << [key |-> "occupancy_blk", keyword |-> "Occupancy [4KiB blocks]"],
     [key |-> "occupancy_pct", keyword |-> "Occupancy [%]"],
     [key |-> "free_blk", keyword |-> "Free [4KiB blocks]"],
     [key |-> "free_pct", keyword |-> "Free [%]"],
     [key |-> "clean_blk", keyword |-> "Clean [4KiB blocks]"],
     [key |-> "clean_pct", keyword |-> "Clean [%]"],
     [key |-> "diry_blk", keyword |-> "Dirty [4KiB blocks]"],
     [key |-> "dirty_pct", keyword |-> "Dirty [%]"],
     [key |-> "rd_hit_blk", keyword |-> "Read hits [Requests]"],
     [key |-> "rd_hit_pct", keyword |-> "Read hits [%]"],
     [key |-> "rd_part_misses_blk", keyword |-> "Read partial misses [Requests]"],
     [key |-> "rd_part_misses_pct", keyword |-> "Read partial misses [%]"],
     [key |-> "rd_full_misses_blk", keyword |-> "Read full misses [Requests]"],
     [key |-> "rd_full_misses_pct", keyword |-> "Read full misses [%]"],
     [key |-> "rd_total_blk", keyword |-> "Read total [Requests]"],
     [key |-> "rd_total_pct", keyword |-> "Read total [%]"],
     [key |-> "wt_hit_blk", keyword |-> "Write hits [Requests]"],
     [key |-> "wt_hit_pct", keyword |-> "Write hits [%]"],
     [key |-> "wt_part_misses_blk", keyword |-> "Write partial misses [Requests]"],
     [key |-> "wt_part_misses_pct", keyword |-> "Write partial misses [%]"],
     [key |-> "wt_full_misses_blk", keyword |-> "Write full misses [Requests]"],
     [key |-> "wt_full_misses_pct", keyword |-> "Write full misses [%]"],
     [key |-> "wt_total_blk", keyword |-> "Write total [Requests]"],
     [key |-> "wt_total_pct", keyword |-> "Write total [%]"],
     [key |-> "passthru_rd_blk", keyword |-> "Pass-Through reads [Requests]"],
     [key |-> "passthru_rd_pct", keyword |-> "Pass-Through reads [%]"],
     [key |-> "passthru_wt_blk", keyword |-> "Pass-Through writes [Requests]"],
     [key |-> "passthru_wt_pct", keyword |-> "Pass-Through writes [%]"],
     [key |-> "serviced_blk", keyword |-> "Serviced requests [Requests]"],
     [key |-> "serviced_pct", keyword |-> "Serviced requests [%]"],
     [key |-> "total_request_blk", keyword |-> "Total requests [Requests]"],
     [key |-> "total_request_pct", keyword |-> "Total requests [%]"],
     [key |-> "rd_core_blk", keyword |-> "Reads from core(s) [4KiB blocks]"],
     [key |-> "rd_core_pct", keyword |-> "Reads from core(s) [%]"],
     [key |-> "wt_core_blk", keyword |-> "Writes to core(s) [4KiB blocks]"],
     [key |-> "wt_core_pct", keyword |-> "Writes to core(s) [%]"],
     [key |-> "total_core_blk", keyword |-> "Total to/from core(s) [4KiB blocks]"],
     [key |-> "total_core_pct", keyword |-> "Total to/from core(s) [%]"],
     [key |-> "rd_cache_blk", keyword |-> "Reads from cache [4KiB blocks]"],
     [key |-> "rd_cache_pct", keyword |-> "Reads from cache [%]"],
     [key |-> "wt_cache_blk", keyword |-> "Writes to cache [4KiB blocks]"],
     [key |-> "wt_cache_pct", keyword |-> "Writes to cache [%]"],
     [key |-> "total_cache_blk", keyword |-> "Total to/from cache [4KiB blocks]"],
     [key |-> "total_cache_pct", keyword |-> "Total to/from cache [%]"],
     [key |-> "rd_cas_blk", keyword |-> "Reads from exported object(s) [4KiB blocks]"],
     [key |-> "rd_cas_pct", keyword |-> "Reads from exported object(s) [%]"],
     [key |-> "wt_cas_blk", keyword |-> "Writes to exported object(s) [4KiB blocks]"],
     [key |-> "wt_cas_pct", keyword |-> "Writes to exported object(s) [%]"],
     [key |-> "total_cas_blk", keyword |-> "Total to/from exported object(s) [4KiB blocks]"],
     [key |-> "total_cas_pct", keyword |-> "Total to/from exported object(s) [%]"],
     [key |-> "cache_rd_error_blk", keyword |-> "Cache read errors [Requests]"],
     [key |-> "cache_rd_error_pct", keyword |-> "Cache read errors [%]"],
     [key |-> "cache_wt_error_blk", keyword |-> "Cache write errors [Requests]"],
     [key |-> "cache_wt_error_pct", keyword |-> "Cache write errors [%]"],
     [key |-> "cache_total_error_blk", keyword |-> "Cache total errors [Requests]"],
     [key |-> "cache_total_error_pct", keyword |-> "Cache total errors [%]"],
     [key |-> "core_rd_error_blk", keyword |-> "Core read errors [Requests]"],
     [key |-> "core_rd_error_pct", keyword |-> "Core read errors [%]"],
     [key |-> "core_wt_error_blk", keyword |-> "Core write errors [Requests]"],
     [key |-> "core_wt_error_pct", keyword |-> "Core write errors [%]"],
     [key |-> "core_total_error_blk", keyword |-> "Core total errors [Requests]"],
     [key |-> "core_total_error_pct", keyword |-> "Core total errors [%]"],
     [key |-> "total_error_blk", keyword |-> "Total errors [Requests]"],
     [key |-> "total_error_pct", keyword |-> "Total errors [%]"] >>

Keys == {HeadersTable[j].key : j \in 1..Len(HeadersTable)}

headers ==
  [key \in Keys |->
     HeadersTable[CHOOSE j \in 1..Len(HeadersTable) :
                    HeadersTable[j].key = key].keyword]

\* A field of the csv header line is represented by the set of header
\* keywords it contains: strings.Contains(csv_header, header_keyword)
Contains(csv_header, header_keyword) == header_keyword \in csv_header

\* the header line of casadm -P -o csv: the columns that come before the
\* statistics, then one column per keyword
LeadingColumns == 16

FullHeader ==
  [i \in 1..(LeadingColumns + Len(HeadersTable)) |->
     IF i <= LeadingColumns THEN {} ELSE {HeadersTable[i - LeadingColumns].keyword}]

\* the line without its i-th field
WithoutField(line, i) ==
  [j \in 1..(Len(line) - 1) |-> IF j < i THEN line[j] ELSE line[j + 1]]

\* the header lines casadm prints in the model: complete, or with one of the
\* statistics columns missing, or empty
HeaderLines ==
  {FullHeader, <<{}>>}
  \cup {WithoutField(FullHeader, LeadingColumns + k) : k \in 1..Len(HeadersTable)}

\* for h := range headers: Go visits the keys of a map in an order of its
\* choice; the orders of the model are the rotations of the table
KeyOrders ==
  {[j \in 1..Len(HeadersTable) |->
      HeadersTable[((j + r - 1) % Len(HeadersTable)) + 1].key] :
   r \in 0..(Len(HeadersTable) - 1)}

\* mapHeaders(headerline), the keys visited in the order all_keys; headerMap
\* is kept as the set of its <<keyword, position>> entries.  found is set by
\* the first key that is found and never reset: the k-th iteration returns 1
\* when none of the keys 1..k is found.
mapHeaders(csv_headers, all_keys, hm) ==
  LET header_keyword(k) == headers[all_keys[k]]
      hits == [k \in 1..Len(all_keys) |->
                 LET kw == header_keyword(k)
                 IN {i \in 1..Len(csv_headers) : Contains(csv_headers[i], kw)}]
      Hits(k) == hits[k]
      hit == {k \in 1..Len(all_keys) : Hits(k) # {}}
      found(k) == \E j \in hit : j <= k
      returns == {k \in 1..Len(all_keys) : ~found(k)}
      done == IF returns = {} THEN Len(all_keys)
              ELSE (CHOOSE k \in returns : \A j \in returns : k <= j) - 1
      mapped == {k \in hit : k <= done}
      first(k) == CHOOSE i \in Hits(k) : \A j \in Hits(k) : i <= j
  IN [rc |-> IF returns = {} THEN 0 ELSE 1,
      headerMap |->
        {e \in hm : e[1] \notin {header_keyword(k) : k \in mapped}}
          \cup {<<header_keyword(k), first(k) - 1>> : k \in mapped}]

\* the keywords of the table no field of the line contains
MissingColumns(csv_headers) ==
  {headers[key] : key \in Keys} \
    UNION {csv_headers[i] : i \in 1..Len(csv_headers)}

\* exec.Command("bash", "-c", "casadm -P ...").Output() fails: os.Exit(1)
Legacy_ProbeErr ==
  /\ ~exited /\ legacy_pc = "probe"
  /\ exited' = TRUE
  /\ exitCode' = 1
  /\ legacy_pc' = "exited"
  /\ UNCHANGED <<main_pc, wg, ctxDone, cancelHist, schedVars, serveVars,
                 listenErr, shutdownErr, adapterVars, headerline, rc,
                 headerMap, recording, serving, lateVars>>

\* the command succeeds: headerline := outArray[0]
Legacy_ProbeOk ==
  /\ ~exited /\ legacy_pc = "probe"
  /\ \E h \in HeaderLines : headerline' = h
  /\ legacy_pc' = "map"
  /\ UNCHANGED <<mainVars, schedVars, serveVars, listenErr, shutdownErr,
                 adapterVars, rc, headerMap, recording, serving, lateVars>>

\* initializeHeaders(); rc := mapHeaders(headerline)
Legacy_MapHeaders ==
  /\ ~exited /\ legacy_pc = "map"
  /\ \E all_keys \in KeyOrders :
       LET r == mapHeaders(headerline, all_keys, headerMap)
       IN rc' = r.rc /\ headerMap' = r.headerMap
  /\ legacy_pc' = "checkRc"
  /\ UNCHANGED <<mainVars, schedVars, serveVars, listenErr, shutdownErr,
                 adapterVars, headerline, recording, serving, lateVars>>

\* if rc != 0 { xprint("ERROR : Failed to map header") }: main goes on
Legacy_CheckRc ==
  /\ ~exited /\ legacy_pc = "checkRc"
  /\ legacy_pc' = "record"
  /\ UNCHANGED <<mainVars, schedVars, serveVars, listenErr, shutdownErr,
                 adapterVars, headerline, rc, headerMap, recording, serving, lateVars>>

\* recordMetrics_19_9(): the sampling goroutine is started
Legacy_RecordMetrics ==
  /\ ~exited /\ legacy_pc = "record"
  /\ recording' = TRUE
  /\ legacy_pc' = "listen"
  /\ UNCHANGED <<mainVars, schedVars, serveVars, listenErr, shutdownErr,
                 adapterVars, headerline, rc, headerMap, serving, lateVars>>

\* the Set calls of recordMetrics_19_9 in the order of the code: the gauge,
\* its labels, and the index into parsed_ocf_data: a number written in the
\* code, or headerMap[occupancy_blk]
LegacySets ==
  << [vec |-> "OCFStat_count", category |-> "usage", subcategory |-> "occupancy", via |-> "headerMap", index |-> 0],
     [vec |-> "OCFStat_count", category |-> "usage", subcategory |-> "free", via |-> "const", index |-> 18],
     [vec |-> "OCFStat_count", category |-> "usage", subcategory |-> "clean", via |-> "const", index |-> 20],
     [vec |-> "OCFStat_count", category |-> "usage", subcategory |-> "dirty", via |-> "const", index |-> 22],
     [vec |-> "OCFStat_count", category |-> "requests", subcategory |-> "rd_hits", via |-> "const", index |-> 24],
     [vec |-> "OCFStat_count", category |-> "requests", subcategory |-> "rd_partial_misses", via |-> "const", index |-> 26],
     [vec |-> "OCFStat_count", category |-> "requests", subcategory |-> "rd_full_misses", via |-> "const", index |-> 28],
     [vec |-> "OCFStat_count", category |-> "requests", subcategory |-> "rd_total", via |-> "const", index |-> 30],
     [vec |-> "OCFStat_count", category |-> "requests", subcategory |-> "wr_hits", via |-> "const", index |-> 32],
     [vec |-> "OCFStat_count", category |-> "requests", subcategory |-> "wr_partial_misses", via |-> "const", index |-> 34],
     [vec |-> "OCFStat_count", category |-> "requests", subcategory |-> "wr_full_misses", via |-> "const", index |-> 36],
     [vec |-> "OCFStat_count", category |-> "requests", subcategory |-> "wr_total", via |-> "const", index |-> 38],
     [vec |-> "OCFStat_count", category |-> "requests", subcategory |-> "rd_pt", via |-> "const", index |-> 31],
     [vec |-> "OCFStat_count", category |-> "requests", subcategory |-> "wr_pt", via |-> "const", index |-> 39],
     [vec |-> "OCFStat_count", category |-> "requests", subcategory |-> "serviced", via |-> "const", index |-> 44],
     [vec |-> "OCFStat_count", category |-> "requests", subcategory |-> "total", via |-> "const", index |-> 46],
     [vec |-> "OCFStat_count", category |-> "blocks", subcategory |-> "core_volume_rd", via |-> "const", index |-> 48],
     [vec |-> "OCFStat_count", category |-> "blocks", subcategory |-> "core_volume_wr", via |-> "const", index |-> 50],
     [vec |-> "OCFStat_count", category |-> "blocks", subcategory |-> "core_volume_total", via |-> "const", index |-> 52],
     [vec |-> "OCFStat_count", category |-> "blocks", subcategory |-> "cache_volume_rd", via |-> "const", index |-> 54],
     [vec |-> "OCFStat_count", category |-> "blocks", subcategory |-> "cache_volume_wr", via |-> "const", index |-> 56],
     [vec |-> "OCFStat_count", category |-> "blocks", subcategory |-> "cache_volume_total", via |-> "const", index |-> 58],
     [vec |-> "OCFStat_count", category |-> "blocks", subcategory |-> "volume_rd", via |-> "const", index |-> 60],
     [vec |-> "OCFStat_count", category |-> "blocks", subcategory |-> "volume_wr", via |-> "const", index |-> 62],
     [vec |-> "OCFStat_count", category |-> "blocks", subcategory |-> "volume_total", via |-> "const", index |-> 64],
     [vec |-> "OCFStat_count", category |-> "errors", subcategory |-> "cache_volume_rd", via |-> "const", index |-> 66],
     [vec |-> "OCFStat_count", category |-> "errors", subcategory |-> "cache_volume_wr", via |-> "const", index |-> 68],
     [vec |-> "OCFStat_count", category |-> "errors", subcategory |-> "cache_volume_total", via |-> "const", index |-> 70],
     [vec |-> "OCFStat_count", category |-> "errors", subcategory |-> "core_volume_rd", via |-> "const", index |-> 72],
     [vec |-> "OCFStat_count", category |-> "errors", subcategory |-> "core_volume_wr", via |-> "const", index |-> 74],
     [vec |-> "OCFStat_count", category |-> "errors", subcategory |-> "core_volume_total", via |-> "const", index |-> 76],
     [vec |-> "OCFStat_count", category |-> "errors", subcategory |-> "total", via |-> "const", index |-> 78],
     [vec |-> "OCFStat_percentage", category |-> "usage", subcategory |-> "occupancy", via |-> "const", index |-> 17],
     [vec |-> "OCFStat_percentage", category |-> "usage", subcategory |-> "free", via |-> "const", index |-> 19],
     [vec |-> "OCFStat_percentage", category |-> "usage", subcategory |-> "clean", via |-> "const", index |-> 21],
     [vec |-> "OCFStat_percentage", category |-> "usage", subcategory |-> "dirty", via |-> "const", index |-> 23],
     [vec |-> "OCFStat_percentage", category |-> "requests", subcategory |-> "rd_hits", via |-> "const", index |-> 25],
     [vec |-> "OCFStat_percentage", category |-> "requests", subcategory |-> "rd_partial_misses", via |-> "const", index |-> 27],
     [vec |-> "OCFStat_percentage", category |-> "requests", subcategory |-> "rd_full_misses", via |-> "const", index |-> 29],
     [vec |-> "OCFStat_percentage", category |-> "requests", subcategory |-> "rd_total", via |-> "const", index |-> 31],
     [vec |-> "OCFStat_percentage", category |-> "requests", subcategory |-> "wr_hits", via |-> "const", index |-> 33],
     [vec |-> "OCFStat_percentage", category |-> "requests", subcategory |-> "wr_partial_misses", via |-> "const", index |-> 35],
     [vec |-> "OCFStat_percentage", category |-> "requests", subcategory |-> "wr_full_misses", via |-> "const", index |-> 37],
     [vec |-> "OCFStat_percentage", category |-> "requests", subcategory |-> "wr_total", via |-> "const", index |-> 39],
     [vec |-> "OCFStat_percentage", category |-> "requests", subcategory |-> "rd_pt", via |-> "const", index |-> 31],
     [vec |-> "OCFStat_percentage", category |-> "requests", subcategory |-> "wr_pt", via |-> "const", index |-> 39],
     [vec |-> "OCFStat_percentage", category |-> "requests", subcategory |-> "serviced", via |-> "const", index |-> 45],
     [vec |-> "OCFStat_percentage", category |-> "requests", subcategory |-> "total", via |-> "const", index |-> 47],
     [vec |-> "OCFStat_percentage", category |-> "blocks", subcategory |-> "core_volume_rd", via |-> "const", index |-> 49],
     [vec |-> "OCFStat_percentage", category |-> "blocks", subcategory |-> "core_volume_wr", via |-> "const", index |-> 51],
     [vec |-> "OCFStat_percentage", category |-> "blocks", subcategory |-> "core_volume_total", via |-> "const", index |-> 53],
     [vec |-> "OCFStat_percentage", category |-> "blocks", subcategory |-> "cache_volume_rd", via |-> "const", index |-> 55],
     [vec |-> "OCFStat_percentage", category |-> "blocks", subcategory |-> "cache_volume_wr", via |-> "const", index |-> 57],
     [vec |-> "OCFStat_percentage", category |-> "blocks", subcategory |-> "cache_volume_total", via |-> "const", index |-> 59],
     [vec |-> "OCFStat_percentage", category |-> "blocks", subcategory |-> "volume_rd", via |-> "const", index |-> 61],
     [vec |-> "OCFStat_percentage", category |-> "blocks", subcategory |-> "volume_wr", via |-> "const", index |-> 63],
     [vec |-> "OCFStat_percentage", category |-> "blocks", subcategory |-> "volume_total", via |-> "const", index |-> 65],
     [vec |-> "OCFStat_percentage", category |-> "errors", subcategory |-> "cache_volume_rd", via |-> "const", index |-> 67],
     [vec |-> "OCFStat_percentage", category |-> "errors", subcategory |-> "cache_volume_wr", via |-> "const", index |-> 69],
     [vec |-> "OCFStat_percentage", category |-> "errors", subcategory |-> "cache_volume_total", via |-> "const", index |-> 71],
     [vec |-> "OCFStat_percentage", category |-> "errors", subcategory |-> "core_volume_rd", via |-> "const", index |-> 73],
     [vec |-> "OCFStat_percentage", category |-> "errors", subcategory |-> "core_volume_wr", via |-> "const", index |-> 75],
     [vec |-> "OCFStat_percentage", category |-> "errors", subcategory |-> "core_volume_total", via |-> "const", index |-> 77],
     [vec |-> "OCFStat_percentage", category |-> "errors", subcategory |-> "total", via |-> "const", index |-> 79] >>

\* the internal name of the occupancy column
occupancy_blk == "occupancy_blk"

\* headerMap[key]: the position stored under key, 0 when there is none
MapIndex(hm, key) ==
  IF \E e \in hm : e[1] = key THEN (CHOOSE e \in hm : e[1] = key)[2] ELSE 0

\* a field strconv.ParseFloat rejects
NotANumber == 0 - 1

\* the data line casadm prints under the header line, split at the commas:
\* as many fields as the header has, the first (the cache id) a number or
\* not, every other field i (counted from 0) the number seed*100 + i
DataLines(n) ==
  {[i \in 1..n |-> IF i = 1 THEN first ELSE seed * 100 + i - 1] :
     seed \in Seeds, first \in Seeds \cup {NotANumber}}

\* the index of the k-th Set call
LegacyIndex(k, hm) ==
  IF LegacySets[k].via = "headerMap" THEN MapIndex(hm, occupancy_blk)
  ELSE LegacySets[k].index

\* the Set calls made before the first index that is out of range
LegacyReached(data, hm) ==
  {k \in 1..Len(LegacySets) :
     \A j \in 1..k : LegacyIndex(j, hm) < Len(data)}

\* one GaugeVec after the Set calls reached: a field that is no number
\* leaves its gauge alone
LegacyApply(vec, name, data, hm) ==
  LET ks == {k \in LegacyReached(data, hm) :
               /\ LegacySets[k].vec = name
               /\ data[LegacyIndex(k, hm) + 1] # NotANumber}
      lab(k) == <<LegacySets[k].category, LegacySets[k].subcategory>>
  IN [l \in DOMAIN vec \cup {lab(k) : k \in ks} |->
        IF \E k \in ks : lab(k) = l
        THEN data[LegacyIndex(CHOOSE k \in ks : lab(k) = l, hm) + 1]
        ELSE vec[l]]

\* one iteration of the goroutine of recordMetrics_19_9 with a command that
\* succeeded: split the data line, the 64 Set calls; an index out of range
\* panics and the process dies with status 2
Legacy_Sample ==
  /\ ~exited /\ recording
  /\ \E data \in DataLines(Len(headerline)) :
       /\ parsed_ocf_data' = data
       /\ OCFStat_count' = LegacyApply(OCFStat_count, "OCFStat_count", data, headerMap)
       /\ OCFStat_percentage' =
            LegacyApply(OCFStat_percentage, "OCFStat_percentage", data, headerMap)
       /\ IF LegacyReached(data, headerMap) = 1..Len(LegacySets)
          THEN UNCHANGED <<exited, exitCode>>
          ELSE exited' = TRUE /\ exitCode' = 2
  /\ UNCHANGED <<main_pc, wg, ctxDone, cancelHist, schedVars, serveVars,
                 listenErr, shutdownErr, adapterVars, legacyVars, scrapeVars,
                 lastOk, probeVars>>

\* http.Handle("/metrics", ...); http.ListenAndServe(port, nil) serves
Legacy_Listen ==
  /\ ~exited /\ legacy_pc = "listen"
  /\ serving' = TRUE
  /\ legacy_pc' = "serving"
  /\ UNCHANGED <<mainVars, schedVars, serveVars, listenErr, shutdownErr,
                 adapterVars, headerline, rc, headerMap, recording, lateVars>>

\* log.Fatal(http.ListenAndServe(port, nil)): the listen fails, exit 1
Legacy_ListenFail ==
  /\ ~exited /\ legacy_pc = "listen"
  /\ exited' = TRUE
  /\ exitCode' = 1
  /\ legacy_pc' = "exited"
  /\ UNCHANGED <<main_pc, wg, ctxDone, cancelHist, schedVars, serveVars,
                 listenErr, shutdownErr, adapterVars, headerline, rc,
                 headerMap, recording, serving, lateVars>>

\* ------------------------------------------------------- specifications
MainNext ==
  \/ Main_GoStart \/ Main_Add1 \/ Main_GoServe \/ Main_Add2
  \/ Main_Stop \/ Main_Cancel \/ Main_Wait

StartNext(limit) ==
  \/ Start_Done \/ Start_Default(limit) \/ Start_ListCachesErr
  \/ Start_ListCachesOk \/ Start_Skip \/ Start_GetCacheStatsErr
  \/ Start_GetCacheStatsOk \/ Start_WriteStats \/ Start_RangeEnd
  \/ Start_Record \/ Start_Sleep

ServeNext ==
  \/ Serve_Setup \/ Serve_CtxDone \/ Serve_Shutdown \/ Serve_ShutdownReturn
  \/ Serve_Done \/ Listen_Bind \/ Listen_Fail \/ Listen_Closed \/ Listen_Exit

RequestNext == Request_Arrive \/ Request_Done

\* the whole program, without inbound requests
Next == MainNext \/ StartNext(MaxRuns) \/ ServeNext

Spec == Init /\ [][Next]_vars

\* the scheduler under cancellation, from the moment main waits for the signal
NextSched == Main_Stop \/ Main_Cancel \/ StartNext(MaxCycles)

SpecSched == InitRunning /\ [][NextSched]_vars

\* the scheduler under cancellation, the Sets of a cache in two steps
NextBlocks ==
  \/ Main_Stop \/ Main_Cancel
  \/ Start_Done \/ Start_Default(MaxCycles) \/ Start_ListCachesErr
  \/ Start_ListCachesOk \/ Start_Skip \/ Start_GetCacheStatsErr
  \/ Start_GetCacheStatsOk \/ Start_WriteCount \/ Start_WritePercent
  \/ Start_RangeEnd \/ Start_Record \/ Start_Sleep

SpecBlocks == InitRunning /\ [][NextBlocks]_vars

\* main and the snapshot server under load; the scheduler is scheduled only
\* once ctx is cancelled, to leave its loop
NextServe == MainNext \/ Start_Done \/ ServeNext \/ RequestNext

SpecServe == Init /\ [][NextServe]_vars

\* the scheduler when the device of a cache changes between two cycles
NextDevice ==
  \/ Start_Default(MaxCycles) \/ Start_ListCachesErr
  \/ Start_ListCachesOkFrom(CacheListsOf({"/dev/sda", "/dev/sdb"}))
  \/ Start_GetCacheStatsErr \/ Start_GetCacheStatsOk \/ Start_WriteStats
  \/ Start_RangeEnd \/ Start_Record \/ Start_Sleep

SpecDevice == InitRunning /\ [][NextDevice]_vars

\* casadm lists one cache, always the same
OneCache == {l \in CacheListsOf({"/dev/sda"}) : Len(l) = 1 /\ l[1].ID = 1}

\* the scheduler with every cache on one device.  The goroutine of Start is
\* scheduled again and again and time.Sleep returns: the steps from the end
\* of the range loop to the next select are taken when they can be.
StartStep ==
  \/ Start_Done \/ Start_Default(MaxCycles) \/ Start_ListCachesErr
  \/ Start_ListCachesOkFrom(CacheListsOf({"/dev/sda"}))
  \/ Start_GetCacheStatsErr \/ Start_GetCacheStatsOk \/ Start_WriteStats
  \/ Start_RangeEnd \/ Start_Record \/ Start_Sleep

NextRetry == Main_Stop \/ Main_Cancel \/ StartStep

SpecRetry ==
  /\ InitRunning /\ [][NextRetry]_vars
  /\ WF_vars(Start_Record) /\ WF_vars(Start_Sleep)
  /\ WF_vars(Start_Default(MaxCycles))

\* exec.Command in place of exec.CommandContext: the command outlives ctx
Killed_NoContext == FALSE

\* exec.CommandContext(ctx, ...): the command is killed when ctx is done, and
\* CombinedOutput returns its error
Killed == ctxDone

\* casadm lists one cache, active or not
OneRow == {l \in CacheLists : Len(l) = 1}

\* Start with one cache, and the interrupt signal
NextCancel ==
  \/ Main_Stop \/ Main_Cancel
  \/ Start_Done \/ Start_Default(MaxRuns) \/ Start_ListCachesErr
  \/ Start_ListCachesOkFrom(OneRow) \/ Start_Skip
  \/ Start_GetCacheStatsErr \/ Start_GetCacheStatsOk \/ Start_WriteStats
  \/ Start_RangeEnd \/ Start_Record \/ Start_Sleep

\* the whole program with one cache: main, Start and Serve
NextWait ==
  \/ MainNext \/ ServeNext
  \/ Start_Done \/ Start_Default(MaxRuns) \/ Start_ListCachesErr
  \/ Start_ListCachesOkFrom(OneCache)
  \/ Start_GetCacheStatsErr \/ Start_GetCacheStatsOk \/ Start_WriteStats
  \/ Start_RangeEnd \/ Start_Record \/ Start_Sleep

SpecWait == Init /\ [][NextWait]_vars

\* a casadm command may never return unless it is killed: only the return
\* of a killed command and the steps of Start itself are taken when they
\* can be
SpecCancel ==
  /\ InitRunning /\ [][NextCancel]_vars
  /\ WF_vars(Killed /\ Start_ListCachesErr)
  /\ WF_vars(Killed /\ Start_GetCacheStatsErr)
  /\ WF_vars(Start_Skip)
  /\ WF_vars(Start_WriteStats) /\ WF_vars(Start_RangeEnd)
  /\ WF_vars(Start_Record) /\ WF_vars(Start_Sleep)
  /\ WF_vars(Start_Done)

\* the casadm adapter alone: calls with every outcome of the command
NextAdapter == Adapter_ListCaches \/ Adapter_GetCacheStats

SpecAdapter == Init /\ [][NextAdapter]_vars

\* the legacy exporter: its main, up to serving
\* the Start loop with the two Set blocks as two steps
ScrapedStart ==
  \/ Start_Default(MaxRuns) \/ Start_ListCachesErr
  \/ Start_ListCachesOkFrom(OneCache)
  \/ Start_GetCacheStatsErr \/ Start_GetCacheStatsOk
  \/ Start_WriteCount \/ Start_WritePercent \/ Start_RangeEnd
  \/ Start_Record \/ Start_Sleep

\* the server is brought up; requests for /metrics arrive while Start runs
NextScrape ==
  \/ Serve_Setup \/ Listen_Bind
  \/ ScrapedStart
  \/ Scrape_Begin \/ Scrape_Collect \/ Scrape_End

SpecScrape == InitRunning /\ [][NextScrape]_vars

\* the two Set blocks as functions of the Reading
NextCompare == Compare_Count \/ Compare_Percentage

SpecCompare == Init /\ [][NextCompare]_vars

NextLegacy ==
  \/ Legacy_ProbeErr \/ Legacy_ProbeOk \/ Legacy_MapHeaders \/ Legacy_CheckRc
  \/ Legacy_RecordMetrics \/ Legacy_Listen \/ Legacy_ListenFail
  \/ Legacy_Sample

SpecLegacy == Init /\ [][NextLegacy]_vars

\* ------------------------------------------------------------- properties
\* the fixed (category, subcategory) table, with the CacheStats fields of the
\* same meaning: abs for the count point, pct for the percentage point
FixedTable ==
  << [category |-> "usage", subcategory |-> "occupancy", abs |-> "Occupancy4K", pct |-> "OccupancyPercent"],
     [category |-> "usage", subcategory |-> "free", abs |-> "Free4K", pct |-> "FreePercent"],
     [category |-> "usage", subcategory |-> "clean", abs |-> "Clean4K", pct |-> "CleanPercent"],
     [category |-> "usage", subcategory |-> "dirty", abs |-> "Dirty4K", pct |-> "DirtyPercent"],
     [category |-> "requests", subcategory |-> "rd_hits", abs |-> "ReadHitsRequests", pct |-> "ReadHitsPercent"],
     [category |-> "requests", subcategory |-> "rd_partial_misses", abs |-> "ReadPartialMissesRequests", pct |-> "ReadPartialMissesPercent"],
     [category |-> "requests", subcategory |-> "rd_full_misses", abs |-> "ReadFullMissesRequests", pct |-> "ReadFullMissesPercent"],
     [category |-> "requests", subcategory |-> "rd_total", abs |-> "ReadTotalRequests", pct |-> "ReadTotalPercent"],
     [category |-> "requests", subcategory |-> "wr_hits", abs |-> "WriteHitsRequests", pct |-> "WriteHitsPercent"],
     [category |-> "requests", subcategory |-> "wr_partial_misses", abs |-> "WritePartialMissesRequests", pct |-> "WritePartialMissesPercent"],
     [category |-> "requests", subcategory |-> "wr_full_misses", abs |-> "WriteFullMissesRequests", pct |-> "WriteFullMissesPercent"],
     [category |-> "requests", subcategory |-> "wr_total", abs |-> "WriteTotalRequests", pct |-> "WriteTotalPercent"],
     [category |-> "requests", subcategory |-> "rd_pt", abs |-> "PassThroughReadsRequests", pct |-> "PassThroughReadsPercent"],
     [category |-> "requests", subcategory |-> "wr_pt", abs |-> "PassThroughWritesRequests", pct |-> "PassThroughWritesPercent"],
     [category |-> "requests", subcategory |-> "serviced", abs |-> "ServicedRequestsRequests", pct |-> "ServicedRequestsPercent"],
     [category |-> "requests", subcategory |-> "total", abs |-> "TotalRequestsRequests", pct |-> "TotalRequestsPercent"],
     [category |-> "blocks", subcategory |-> "core_volume_rd", abs |-> "ReadsFromCores4K", pct |-> "ReadsFromCoresPercent"],
     [category |-> "blocks", subcategory |-> "core_volume_wr", abs |-> "WritesFromCores4K", pct |-> "WritesFromCoresPercent"],
     [category |-> "blocks", subcategory |-> "core_volume_total", abs |-> "TotalToFromCores4K", pct |-> "TotalToFromCoresPercent"],
     [category |-> "blocks", subcategory |-> "cache_volume_rd", abs |-> "ReadsFromCache4K", pct |-> "ReadsFromCachePercent"],
     [category |-> "blocks", subcategory |-> "cache_volume_wr", abs |-> "WritesToCachce4K", pct |-> "WritesToCachcePercent"],
     [category |-> "blocks", subcategory |-> "cache_volume_total", abs |-> "TotalToFromCache4K", pct |-> "TotalToFromCachePercent"],
     [category |-> "blocks", subcategory |-> "volume_rd", abs |-> "ReadsFromExportedObjects4K", pct |-> "ReadsFromExportedObjectsPercent"],
     [category |-> "blocks", subcategory |-> "volume_wr", abs |-> "WritesToExportedObjects4K", pct |-> "WritesToExportedObjectsPercent"],
     [category |-> "blocks", subcategory |-> "volume_total", abs |-> "TotalToFromExportedObjects4K", pct |-> "TotalToFromExportedObjectsPercent"],
     [category |-> "errors", subcategory |-> "cache_volume_rd", abs |-> "CacheReadErrorsRequests", pct |-> "CacheReadErrorsPercent"],
     [category |-> "errors", subcategory |-> "cache_volume_wr", abs |-> "CacheWriteErrorsRequests", pct |-> "CacheWriteErrorsPercent"],
     [category |-> "errors", subcategory |-> "cache_volume_total", abs |-> "CacheTotalErrorsRequests", pct |-> "CacheTotalErrorsPercent"],
     [category |-> "errors", subcategory |-> "core_volume_rd", abs |-> "CoreReadErrorsRequests", pct |-> "CoreReadErrorsPercent"],
     [category |-> "errors", subcategory |-> "core_volume_wr", abs |-> "CoreWriteErrorsRequests", pct |-> "CoreWriteErrorsPercent"],
     [category |-> "errors", subcategory |-> "core_volume_total", abs |-> "CoreTotalErrorsRequests", pct |-> "CoreTotalErrorsPercent"],
     [category |-> "errors", subcategory |-> "total", abs |-> "TotalErrorsRequests", pct |-> "TotalErrorsPercent"] >>

FixedKeys == {<<FixedTable[k].category, FixedTable[k].subcategory>> :
                k \in 1..Len(FixedTable)}

\* the labels of entity c's point for a row of the fixed table
PointOf(c, row) == <<c.Device, Itoa(c.ID), row.category, row.subcategory>>

\* caches, outcome and written describe the cycle begun last
CachesCurrent == cyclesStarted > 0 /\ ~listErr /\ sched_pc # "list"

\* the cycle begun last has recorded its outcome
CycleRecorded == cyclesStarted > 0 /\ sched_pc \in {"sleep", "top", "stopped"}

\* GetCacheStats has been called for entity i in the current cycle
Sampled(i) ==
  \/ i <= Len(outcome) /\ outcome[i].res \in {"ok", "failed"}
  \/ i = ci /\ sched_pc = "write"

\* C1: in every cycle, an entity whose Device is "-" is never passed to
\* GetCacheStats and no count or percentage point is set for it.
C1_InactiveNeverSampled ==
  CachesCurrent =>
    \A i \in 1..Len(caches) :
      caches[i].Device = SentinelDevice =>
        /\ ~Sampled(i)
        /\ \A l \in written : l[1] # SentinelDevice /\ l[2] # Itoa(caches[i].ID)
        /\ \A l \in DOMAIN ocfStatCount \cup DOMAIN ocfStatPercentage :
             l[1] # SentinelDevice

\* enumerate = [{1, /dev/sda}, {2, "-"}]: entity 1 sampled with occupancy
\* 100 / 42.5, entity 2 skipped
C1_Witness ==
  /\ sched_pc = "sleep" /\ ~listErr
  /\ caches = <<[ID |-> 1, Device |-> "/dev/sda"],
                [ID |-> 2, Device |-> SentinelDevice]>>
  /\ outcome[1].res = "ok" /\ outcome[2].res = "skipped"
  /\ ocfStatCount[<<"/dev/sda", "1", "usage", "occupancy">>] = Float64(100)
  /\ ocfStatPercentage[<<"/dev/sda", "1", "usage", "occupancy">>] = 425
  /\ written = {<<"/dev/sda", "1">>}

\* C2: after a cycle, every count point of a successfully sampled entity
\* equals float64 of the absolute field of the same meaning and every
\* percentage point equals the percent field of the same meaning.
C2_RoundTrip ==
  (CachesCurrent /\ CycleRecorded) =>
    \A i \in 1..Len(outcome) :
      outcome[i].res = "ok" =>
        \A k \in 1..Len(FixedTable) :
          LET row == FixedTable[k]
              l == PointOf(caches[i], row)
          IN /\ l \in DOMAIN ocfStatCount
             /\ ocfStatCount[l] = Float64(Field(outcome[i].stats, row.abs))
             /\ l \in DOMAIN ocfStatPercentage
             /\ ocfStatPercentage[l] = Field(outcome[i].stats, row.pct)

\* C3: once an entity has been sampled successfully in a cycle, the model
\* holds a count point and a percentage point of it for every pair of the
\* fixed table, and every point of the model has a pair of the fixed table.
C3_FixedKeys ==
  /\ Cardinality(FixedKeys) = 32
  /\ \A l \in DOMAIN ocfStatCount \cup DOMAIN ocfStatPercentage :
       <<l[3], l[4]>> \in FixedKeys
  /\ CachesCurrent =>
       \A i \in 1..Len(outcome) :
         outcome[i].res = "ok" =>
           \A k \in 1..Len(FixedTable) :
             /\ PointOf(caches[i], FixedTable[k]) \in DOMAIN ocfStatCount
             /\ PointOf(caches[i], FixedTable[k]) \in DOMAIN ocfStatPercentage

C3_Witness ==
  /\ CycleRecorded /\ CachesCurrent
  /\ \E i \in 1..Len(outcome) : outcome[i].res = "ok"
  /\ Cardinality(DOMAIN ocfStatCount) = 32
  /\ Cardinality(DOMAIN ocfStatPercentage) = 32

\* C4: when GetCacheStats fails for an entity B in a cycle, the loop still
\* visits every enumerated entity; every entity A whose GetCacheStats
\* succeeds in that cycle, before or after B, has its 64 points set to the
\* values Start takes from A's Reading; and the success flag recorded at the
\* end of the cycle is 0.
C4_FailureIsolation ==
  (/\ CachesCurrent /\ CycleRecorded
   /\ \E b \in 1..Len(outcome) : outcome[b].res = "failed") =>
    /\ Len(outcome) = Len(caches)
    /\ \A a \in 1..Len(outcome) :
         outcome[a].res = "ok" =>
           \A k \in 1..Len(Writes) :
             LET w == Writes[k]
                 vec == IF w.vec = "ocfStatCount" THEN ocfStatCount
                        ELSE ocfStatPercentage
             IN /\ Labels(caches[a], w) \in DOMAIN vec
                /\ vec[Labels(caches[a], w)] = SetValue(w, outcome[a].stats)
    /\ ocfStatSuccess[<<>>] = 0

\* B is enumerated first and fails, A follows and is written
C4_Witness ==
  /\ sched_pc = "sleep" /\ CachesCurrent
  /\ Len(outcome) = 2
  /\ outcome[1].res = "failed" /\ outcome[2].res = "ok"
  /\ <<caches[2].Device, Itoa(caches[2].ID)>> \in written
  /\ ocfStatSuccess[<<>>] = 0

\* C5: when ListCaches fails in a cycle, no entity is sampled, no count or
\* percentage point changes, the duration gauge is still set and the success
\* flag is set to 0.
C5_ListFailure ==
  /\ [](listErr =>
          /\ outcome = <<>> /\ written = {}
          /\ sched_pc \notin {"range", "write"}
          /\ CycleRecorded =>
               /\ durationSets = cyclesStarted
               /\ <<>> \in DOMAIN ocfStatDuration
               /\ ocfStatSuccess[<<>>] = 0)
  /\ [][listErr' => UNCHANGED <<ocfStatCount, ocfStatPercentage>>]_vars

\* a cycle with points from an earlier cycle in the model fails to enumerate
C5_Witness ==
  /\ listErr /\ sched_pc = "sleep"
  /\ cyclesStarted = 2
  /\ DOMAIN ocfStatCount # {} /\ DOMAIN ocfStatPercentage # {}
  /\ durationSets = 2
  /\ ocfStatSuccess[<<>>] = 0

\* C6: after cancellation the process exits with status 0, and only after
\* both Start and Serve have called wg.Done.
C6_GracefulExit ==
  (exited /\ ctxDone /\ bound) =>
    /\ exitCode = 0
    /\ sched_pc = "stopped"
    /\ serve_pc = "returned"

\* C7: at most MaxRequestsInFlight renders are in flight at any moment.
C7_Ceiling == rendering <= MaxRequestsInFlight

\* C8: a cycle starts only at the top of the loop, after the cycle before it
\* has recorded its outcome and its sleep has returned; at most one cycle is
\* open at any moment.
C8_NoOverlap ==
  /\ [](cyclesStarted - cyclesFinished \in {0, 1})
  /\ [](sched_pc \in {"list", "range", "write", "record", "sleep"}
          <=> cyclesStarted = cyclesFinished + 1)
  /\ [][cyclesStarted' # cyclesStarted =>
          /\ cyclesStarted' = cyclesStarted + 1
          /\ sched_pc = "top"
          /\ cyclesFinished = cyclesStarted
          /\ durationSets = cyclesStarted]_vars

\* the second cycle has begun
C8_Witness ==
  /\ cyclesStarted = 2 /\ cyclesFinished = 1 /\ durationSets = 1
  /\ sched_pc = "list"

\* C9: once cancel() has been called no cycle starts, so at most the cycle
\* in progress records its outcome afterwards; the first select reached
\* exits the loop; a stopped Start never sets a gauge again.
C9_CancelAtTop ==
  /\ [](ctxDone =>
          /\ cyclesStarted = startedAtCancel
          /\ durationSets <= recordedAtCancel + 1)
  /\ [][(sched_pc = "top" /\ ctxDone /\ sched_pc' # "top") =>
          sched_pc' = "stopped"]_vars
  /\ [][sched_pc = "stopped" =>
          /\ sched_pc' = "stopped"
          /\ UNCHANGED gaugeVars]_vars

\* cancel() came during a cycle, which ran to its end before Start stopped
C9_Witness ==
  /\ sched_pc = "stopped" /\ ctxDone
  /\ durationSets = recordedAtCancel + 1
  /\ cyclesStarted = startedAtCancel

\* C10: the success flag set at the end of a cycle is 1 exactly when
\* ListCaches succeeded and GetCacheStats succeeded for every entity whose
\* device is not "-"; otherwise it is 0.
C10_SuccessFlag ==
  CycleRecorded =>
    /\ ocfStatSuccess[<<>>] \in {0, Float64(1)}
    /\ ocfStatSuccess[<<>>] = Float64(1) <=>
         /\ ~listErr
         /\ Len(outcome) = Len(caches)
         /\ \A i \in 1..Len(caches) :
              caches[i].Device # SentinelDevice => outcome[i].res = "ok"

\* a cycle with a skipped and a sampled entity ends with the flag at 1
C10_Witness ==
  /\ sched_pc = "sleep" /\ ~listErr
  /\ ocfStatSuccess[<<>>] = Float64(1)
  /\ \E i \in 1..Len(outcome) : outcome[i].res = "ok"
  /\ \E i \in 1..Len(outcome) : outcome[i].res = "skipped"

\* the points of the model, and the <<device, id>> part of a point's labels
StoredLabels == DOMAIN ocfStatCount \cup DOMAIN ocfStatPercentage

Prefix(l) == SubSeq(l, 1, 2)

\* C11 (as stated): once a cycle has recorded its outcome and no newer cycle
\* has begun, every point of the model was written during that cycle.
C11_Fresh ==
  CycleRecorded => \A l \in StoredLabels : Prefix(l) \in written

\* C11 (amended): at the end of a cycle every point of an entity that the
\* cycle sampled successfully holds the value written in that cycle, and a
\* point is created or changed only by the writes of the cycle in progress;
\* the points of entities the cycle did not sample successfully keep older
\* values.
C11_FreshIfSampled ==
  /\ []((CycleRecorded /\ CachesCurrent) =>
          \A i \in 1..Len(outcome) :
            outcome[i].res = "ok" =>
              /\ <<caches[i].Device, Itoa(caches[i].ID)>> \in written
              /\ \A k \in 1..Len(Writes) :
                   LET l == Labels(caches[i], Writes[k])
                   IN IF Writes[k].vec = "ocfStatCount"
                      THEN /\ l \in DOMAIN ocfStatCount
                           /\ ocfStatCount[l] =
                                SetValue(Writes[k], outcome[i].stats)
                      ELSE /\ l \in DOMAIN ocfStatPercentage
                           /\ ocfStatPercentage[l] =
                                SetValue(Writes[k], outcome[i].stats))
  /\ [][/\ \/ ocfStatCount' = ocfStatCount
           \/ \A l \in DOMAIN ocfStatCount' :
                (l \notin DOMAIN ocfStatCount
                   \/ ocfStatCount'[l] # ocfStatCount[l])
                  => sched_pc = "write" /\ Prefix(l) \in written'
        /\ \/ ocfStatPercentage' = ocfStatPercentage
           \/ \A l \in DOMAIN ocfStatPercentage' :
                (l \notin DOMAIN ocfStatPercentage
                   \/ ocfStatPercentage'[l] # ocfStatPercentage[l])
                  => sched_pc = "write" /\ Prefix(l) \in written']_vars

\* the second cycle has sampled one entity and failed to sample another,
\* whose points of the first cycle are still in the model
C11_Witness ==
  /\ CycleRecorded /\ CachesCurrent /\ cyclesStarted = 2
  /\ \E i \in 1..Len(outcome) : outcome[i].res = "ok"
  /\ \E i \in 1..Len(outcome) :
       /\ outcome[i].res = "failed"
       /\ <<caches[i].Device, Itoa(caches[i].ID), "usage", "occupancy">>
            \in DOMAIN ocfStatCount
  /\ \E l \in StoredLabels : Prefix(l) \notin written

\* C13: there is at most one count point and at most one percentage point
\* per (entity id, category, subcategory), whatever device names enumerate
\* has reported for the entity.
C13_KeyUnique ==
  /\ \A l, m \in DOMAIN ocfStatCount :
       (l[2] = m[2] /\ l[3] = m[3] /\ l[4] = m[4]) => l = m
  /\ \A l, m \in DOMAIN ocfStatPercentage :
       (l[2] = m[2] /\ l[3] = m[3] /\ l[4] = m[4]) => l = m

\* C14: no step removes a point from a GaugeVec, and a step changes the
\* value of a point only when it is the write of the entity being sampled,
\* which is in the current enumerate result and not the sentinel: the
\* points of every other entity keep their last written value.
C14_OnlyGrows ==
  [][/\ \/ ocfStatCount' = ocfStatCount
        \/ \A l \in DOMAIN ocfStatCount :
             /\ l \in DOMAIN ocfStatCount'
             /\ ocfStatCount'[l] # ocfStatCount[l] =>
                  /\ sched_pc = "write" /\ ~Inactive(caches[ci])
                  /\ Prefix(l) = <<caches[ci].Device, Itoa(caches[ci].ID)>>
     /\ \/ ocfStatPercentage' = ocfStatPercentage
        \/ \A l \in DOMAIN ocfStatPercentage :
             /\ l \in DOMAIN ocfStatPercentage'
             /\ ocfStatPercentage'[l] # ocfStatPercentage[l] =>
                  /\ sched_pc = "write" /\ ~Inactive(caches[ci])
                  /\ Prefix(l) = <<caches[ci].Device, Itoa(caches[ci].ID)>>
     /\ DOMAIN ocfStatDuration \subseteq DOMAIN ocfStatDuration'
     /\ DOMAIN ocfStatSuccess \subseteq DOMAIN ocfStatSuccess']_vars

\* the second cycle has ended; an entity sampled in the first cycle is no
\* longer enumerated, or is enumerated with the sentinel device, and its
\* points are still in the model
C14_Witness ==
  /\ CycleRecorded /\ CachesCurrent /\ cyclesStarted = 2
  /\ \E l \in StoredLabels :
       \A i \in 1..Len(caches) : Itoa(caches[i].ID) # l[2]
  /\ \E l \in StoredLabels :
       \E i \in 1..Len(caches) :
         Itoa(caches[i].ID) = l[2] /\ caches[i].Device = SentinelDevice

\* C15: when the header line of the command's output lacks a column the
\* table requires, the process neither starts the sampling loop nor serves
\* the endpoint.
C15_FatalAtStartup ==
  (recording \/ serving) => MissingColumns(headerline) = {}

\* the command failed, the output could not be decoded, or GetCacheStats
\* decoded no row
CallFails ==
  \/ adapter_call.err # "nil"
  \/ adapter_call.b.malformed
  \/ adapter_call.fn = "GetCacheStats" /\ Len(adapter_call.b.stats) = 0

\* C16: ListCaches and GetCacheStats never panic and never return a nil
\* result with a nil error; they return an error when the command fails,
\* when its output cannot be decoded and (GetCacheStats) when it decodes to
\* no row; otherwise they return the decoded rows, GetCacheStats the first.
C16_ErrorsReturned ==
  adapter_call.fn # "none" =>
    /\ ~adapter_ret.panic
    /\ adapter_ret.isNil => adapter_ret.err # Nil
    /\ CallFails => adapter_ret.err # Nil /\ adapter_ret.isNil
    /\ ~CallFails =>
         /\ adapter_ret.err = Nil /\ ~adapter_ret.isNil
         /\ adapter_call.fn = "ListCaches" =>
              adapter_ret.caches = adapter_call.b.caches
         /\ adapter_call.fn = "GetCacheStats" =>
              adapter_ret.stats = adapter_call.b.stats[1]

\* casadm --stats exited with status 0 and printed a header without rows
C16_Witness ==
  /\ adapter_call.fn = "GetCacheStats" /\ adapter_call.err = "nil"
  /\ ~adapter_call.b.malformed /\ adapter_call.b.stats = <<>>
  /\ adapter_ret.err.msg = "missing cache stats" /\ adapter_ret.isNil

\* C17: every error ListCaches or GetCacheStats returns quotes the captured
\* output of the command.
C17_RawOutput ==
  adapter_ret.err # Nil => adapter_ret.err.output = <<adapter_call.b>>

\* C18: when ListenAndServe has failed to listen, the process ends with a
\* status other than 0.
C18_ListenFatal ==
  (listenErr = "listen" /\ exited) => exitCode # 0

\* C19: requests in flight when Shutdown is called are not killed before
\* they finish or the drain timeout expires, no request is admitted once
\* Shutdown has been called, and Serve reaches wg.Done only after Shutdown
\* has returned.
C19_Drain ==
  /\ [](/\ (inShutdown /\ exited /\ rendering > 0) =>
             shutdownErr = "deadline exceeded"
        /\ serve_pc \in {"wgDone", "returned"} => shutdownErr # "none")
  /\ [][inShutdown => rendering' <= rendering]_vars
  /\ [][serve_pc = "returned" => serve_pc' = "returned"]_vars
  /\ [][(serve_pc' = "returned" /\ serve_pc # "returned") =>
          (wg' = wg - 1 /\ serve_pc = "wgDone")]_vars

\* C20: a failed ListCaches or GetCacheStats neither ends the process nor
\* leaves the loop, and a cycle that ends with the success flag at 0 is
\* followed by another cycle unless cancel() is called (up to the number of
\* cycles of the model).
C20_LoopSurvives ==
  /\ [][(\/ listErr' /\ ~listErr
         \/ /\ Len(outcome') > Len(outcome)
            /\ outcome'[Len(outcome')].res = "failed") =>
          /\ ~exited' /\ exitCode' = exitCode
          /\ sched_pc' \in {"range", "record"}]_vars
  /\ \A n \in 1..(MaxCycles - 1) :
       (cyclesStarted = n /\ sched_pc = "record" /\ success = 0)
         ~> (ctxDone \/ cyclesStarted = n + 1)

\* the first cycle failed to enumerate; the second cycle has begun
C20_Witness ==
  /\ cyclesStarted = 2 /\ sched_pc = "list" /\ ~ctxDone
  /\ <<>> \in DOMAIN ocfStatSuccess /\ ocfStatSuccess[<<>>] = 0
  /\ durationSets = 1

\* C21: a request for /metrics is served in every state of the Start loop:
\* each line of Collect can run whatever the loop is doing, and sends the
\* children its GaugeVec holds at that moment; the loop's next step can run
\* whatever the request is doing.
C21_ScrapeNeverWaits ==
  /\ [](scrape_pc \in 1..Len(CollectOrder) => ENABLED Scrape_Collect)
  /\ [](scrape_pc = Len(CollectOrder) + 1 => ENABLED Scrape_End)
  /\ [](sched_pc \in {"list", "range", "write", "writePercent", "record", "sleep"}
         => ENABLED ScrapedStart)
  /\ [][scrape_pc' = scrape_pc + 1 /\ scrape_pc >= 1
        => /\ snap'[CollectOrder[scrape_pc]] = Vec(CollectOrder[scrape_pc])
           /\ \A k \in 1..(scrape_pc - 1) :
                snap'[CollectOrder[k]] = snap[CollectOrder[k]]]_vars

\* a request is between the second and the third line of Collect while the
\* loop is between the count block and the percentage block of a cache,
\* and the loop has written to ocfStatCount since the request read it
C21_Witness ==
  /\ scrape_pc = 3
  /\ sched_pc = "writePercent"
  /\ snap.ocfStatCount # ocfStatCount

\* C22: every cycle, failed or not, sets ocfStatDuration and ocfStatSuccess
\* once, as its last writes; no other step touches the two gauges; before
\* the first cycle ends they have no value, afterwards they always have the
\* values of the cycle that ended last.
C22_OutcomePair ==
  /\ [](durationSets = 0 =>
          ocfStatDuration = EmptyVec /\ ocfStatSuccess = EmptyVec)
  /\ [](durationSets > 0 =>
          /\ DOMAIN ocfStatDuration = {<<>>} /\ DOMAIN ocfStatSuccess = {<<>>}
          /\ ocfStatDuration[<<>>] = Since(durationSets))
  /\ [](CycleRecorded =>
          /\ durationSets = cyclesStarted
          /\ ocfStatSuccess[<<>>] = Float64(success))
  /\ [](sched_pc \in {"list", "range", "write", "record"} =>
          durationSets = cyclesStarted - 1)
  /\ [][\/ <<ocfStatDuration, ocfStatSuccess, durationSets>>'
            = <<ocfStatDuration, ocfStatSuccess, durationSets>>
        \/ /\ sched_pc = "record" /\ sched_pc' = "sleep"
           /\ durationSets' = durationSets + 1]_vars

\* a failed cycle after a successful one has recorded its pair
C22_Witness ==
  /\ sched_pc = "sleep" /\ cyclesStarted = 2 /\ durationSets = 2
  /\ success = 0
  /\ ocfStatSuccess[<<>>] = 0 /\ ocfStatDuration[<<>>] = Since(2)
  /\ ocfStatCount # EmptyVec

\* the labels of cache e in the k-th write of the table
PointAt(e, k) == <<e[1], e[2], Writes[k].category, Writes[k].subcategory>>

\* the labelled points are those the Readings in lastOk give: for every
\* cache sampled so far and every write of the table, the value that write
\* sets from the cache's last Reading, and no point of any other cache
LastWritten ==
  /\ \A l \in StoredLabels : Prefix(l) \in DOMAIN lastOk
  /\ \A e \in DOMAIN lastOk :
       LET r == lastOk[e]
       IN \A k \in 1..Len(Writes) :
            /\ PointAt(e, k) \in DOMAIN Vec(Writes[k].vec)
            /\ Vec(Writes[k].vec)[PointAt(e, k)] = SetValue(Writes[k], r)

\* C23: when the range loop of a cycle has ended, every point holds the
\* value set from the last Reading sampled for its cache, whichever cycle
\* that was, and nothing else (no sum, no average); the caches of a cycle
\* are handled one after the other in the order of the list ListCaches
\* returned.
C23_LastWriteWins ==
  /\ [](sched_pc = "record" => LastWritten)
  /\ [](sched_pc \in {"range", "write"} =>
          /\ Len(outcome) = ci - 1
          /\ \A i \in 1..Len(outcome) :
               outcome[i].res = "ok" => lastOk[Entity(caches[i])] = outcome[i].stats)
  /\ [][ci' = ci \/ ci' = ci + 1 \/ (sched_pc = "list" /\ ci' = 1)]_vars
  /\ [][lastOk' = lastOk \/
        /\ sched_pc = "write"
        /\ lastOk' = GaugeSet(lastOk, Entity(caches[ci]), stats)
        /\ ci' = ci + 1]_vars

\* the second cycle has failed to sample its first cache, which keeps the
\* Reading of the first cycle, and has sampled its second cache
C23_Witness ==
  /\ sched_pc = "sleep" /\ cyclesStarted = 2
  /\ Len(outcome) = 2
  /\ outcome[1].res = "failed" /\ outcome[2].res = "ok"
  /\ Entity(caches[1]) \in DOMAIN lastOk
  /\ lastOk[Entity(caches[1])] # lastOk[Entity(caches[2])]

\* C24 (as stated): two Readings with the same absolute fields give the same
\* 32 count points, and two Readings with the same percent fields give the
\* same 32 percentage points.
C24_Independent ==
  /\ (probe.vec = "ocfStatCount" /\ probe.r1.a = probe.r2.a)
       => probe_out[1] = probe_out[2]
  /\ (probe.vec = "ocfStatPercentage" /\ probe.r1.p = probe.r2.p)
       => probe_out[1] = probe_out[2]

\* C25 (as stated): when cancel() has been called and Start is in its wait
\* between two cycles, Start leaves the wait by stopping, not by the wait
\* running to its end.
C25_WaitInterruptible ==
  [][(sched_pc = "sleep" /\ ctxDone /\ sched_pc' # "sleep") =>
       (sched_pc' = "stopped" /\ cyclesFinished' = cyclesFinished)]_vars

C27_ReturnCode ==
  legacy_pc \in {"checkRc", "record", "listen", "serving"} =>
    (rc = 0 <=> MissingColumns(headerline) = {})

\* C28 (as stated): when the header line has every column and mapHeaders
\* has returned 0, so that it has recorded a position for
\* "Occupancy [4KiB blocks]", every sample sets the gauge {usage, occupancy}
\* of OCFStat_count from the field at that position.
C28_OccupancyColumn ==
  (rc = 0 /\ MissingColumns(headerline) = {} /\ parsed_ocf_data # <<>>) =>
    \A e \in headerMap :
      e[1] = headers[occupancy_blk] =>
        /\ <<"usage", "occupancy">> \in DOMAIN OCFStat_count
        /\ OCFStat_count[<<"usage", "occupancy">>] = parsed_ocf_data[e[2] + 1]

\* wg.Add(1) calls main has made, and wg.Done calls the two tasks have made
Adds ==
  (IF main_pc \in {"goStart", "add1"} THEN 0 ELSE 1)
    + (IF main_pc \in {"goStart", "add1", "goServe", "add2"} THEN 0 ELSE 1)

Dones ==
  (IF sched_pc = "stopped" THEN 1 ELSE 0) + (IF serve_pc = "returned" THEN 1 ELSE 0)

\* C29: the counter is the number of Adds less the number of Dones and is
\* never negative; a task calls Done only after main has made both Adds
\* and called cancel(), and not a second time; wg.Wait returns only when
\* both tasks have called Done.
C29_WaitGroup ==
  /\ [](wg = Adds - Dones /\ wg >= 0 /\ exitCode # 2)
  /\ [][wg' < wg => (main_pc = "wait" /\ Adds = 2 /\ wg' = wg - 1)]_vars
  /\ [][/\ sched_pc = "stopped" => sched_pc' = "stopped"
        /\ serve_pc = "returned" => serve_pc' = "returned"]_vars
  /\ [](main_pc = "returned" =>
          sched_pc = "stopped" /\ serve_pc = "returned" /\ wg = 0)

\* wg.Wait has returned and main with it
C29_Witness ==
  /\ main_pc = "returned" /\ exited /\ exitCode = 0
  /\ sched_pc = "stopped" /\ serve_pc = "returned" /\ wg = 0

\* every cache that has a point has all 64, and all 64 come from one Reading
WholeReadings ==
  \A e \in {Prefix(l) : l \in StoredLabels} :
    \E r \in StatsOutputs :
      \A k \in 1..Len(Writes) :
        /\ PointAt(e, k) \in DOMAIN Vec(Writes[k].vec)
        /\ Vec(Writes[k].vec)[PointAt(e, k)] = SetValue(Writes[k], r)

\* C30: when the range loop of a cycle has ended, each cache has either no
\* point or all 64 points from one Reading; the points change only in the
\* two Set blocks, and only those of the cache being written; a cache that
\* is skipped or whose GetCacheStats fails keeps every point as it was.
C30_AllOrNothing ==
  /\ [](sched_pc = "record" => WholeReadings)
  /\ [][\/ ocfStatCount' = ocfStatCount
        \/ /\ sched_pc = "write"
           /\ \A l \in DOMAIN ocfStatCount' :
                Prefix(l) # Entity(caches[ci]) =>
                  l \in DOMAIN ocfStatCount /\ ocfStatCount'[l] = ocfStatCount[l]]_vars
  /\ [][\/ ocfStatPercentage' = ocfStatPercentage
        \/ /\ sched_pc = "writePercent"
           /\ \A l \in DOMAIN ocfStatPercentage' :
                Prefix(l) # Entity(caches[ci]) =>
                  /\ l \in DOMAIN ocfStatPercentage
                  /\ ocfStatPercentage'[l] = ocfStatPercentage[l]]_vars

\* the second cycle has written the first cache from a new Reading and has
\* failed to sample the second, which keeps the Reading of the first cycle
C30_Witness ==
  /\ sched_pc = "sleep" /\ cyclesStarted = 2
  /\ Len(outcome) = 2
  /\ outcome[1].res = "ok" /\ outcome[2].res = "failed"
  /\ Entity(caches[2]) \in DOMAIN lastOk
  /\ lastOk[Entity(caches[2])] # outcome[1].stats
  /\ WholeReadings

====
